---- MODULE Spec2Model ----
(***************************************************************************)
(* Verification model of the GBP/USD research backend.                     *)
(*                                                                         *)
(* The subsystems modelled, each with its own specification:               *)
(*   SpecWS        the WebSocket gateway (api/websocket.py): the           *)
(*                 registry, the endpoint sessions, the broadcaster task;  *)
(*   SpecFeed      the live feed generator (data/live_feed.py);            *)
(*   SpecData      the data manager and the historical download            *)
(*                 (data/data_manager.py, data/historical.py);             *)
(*   SpecValidate  the cleaning of a table (data/historical.py);           *)
(*   SpecBacktest  the backtesting engine (backtesting/engine.py);         *)
(*   SpecBatch     walk-forward, optimizer and Monte Carlo runs            *)
(*                 (backtesting/walk_forward.py, strategies/optimizer.py,  *)
(*                 backtesting/monte_carlo.py);                            *)
(*   SpecPortfolio the portfolio manager                                   *)
(*                 (risk_management/portfolio_manager.py);                 *)
(*   SpecSignals   the signal filter (strategies/signals.py);              *)
(*   SpecWalkForward  walk-forward alone, with fairness                    *)
(*                 (backtesting/walk_forward.py).                          *)
(* They share one set of variables; a specification leaves the             *)
(* variables of the other subsystems at their initial values.              *)
(***************************************************************************)
EXTENDS Integers, Sequences, FiniteSets, TLC

(* ------------------------------------------------------------------ *)
(* Bounds                                                               *)
(* ------------------------------------------------------------------ *)

\* Number of WebSocket clients that ever connect.
NumSockets == 2

\* Candle timestamps are 1..MaxTs.
MaxTs == 2

\* Number of data requests served.
MaxRequests == 2

\* Number of rows of a table given to validate_ohlcv_data.
MaxRows == 3

\* Number of bars of a backtested table.
MaxBars == 5

\* Number of times one engine is run.
MaxRuns == 2

\* Number of bars of a table given to the walk-forward analysis (besides
\* the table of 400 bars).
MaxTotalBars == 6

\* Number of parameter combinations of a grid search, of iterations of a
\* random search.
MaxItems == 3

\* Number of trades given to the Monte Carlo simulation, and of simulated
\* runs.
MaxTrades == 3
MaxSims == 2

\* Number of calls made to the portfolio manager.
MaxCalls == 3

\* Number of bars of a signal series given to filter_signals.
MaxSignals == 5

Sockets == 1..NumSockets

\* Task identifiers: a task is created only by a connect that finds the
\* registry with one element, so there are at most NumSockets of them.
TaskIds == 1..NumSockets

VARIABLES
    \* --- WebSocket gateway (ConnectionManager, websocket_endpoint) ---
    active_connections,  \* ConnectionManager.active_connections: list of sockets
    stream_task,         \* ConnectionManager.stream_task: 0 (None) or a task id
    tasks,               \* every task created by start_streaming, by id
    nTasks,              \* number of tasks created so far
    sess,                \* position of each socket's websocket_endpoint handler
    \* --- Providers (module-level singletons and their environment) ---
    configured,          \* which of oanda_provider / alpha_vantage_provider are not None
    up,                  \* providers whose get_current_price() currently succeeds
    \* --- Live feed (stream_gbpusd_live) ---
    feed_provider,       \* the argument `provider'
    providers,           \* the local list `providers' (names)
    provider_name,       \* the local provider_name ("none" for None)
    consecutive_errors,  \* the local consecutive_errors
    feedPc,              \* position of the generator
    failover,            \* record of the last pass through the error handler at max_errors
    lastTick,            \* provider of the last tick yielded ("none" before any)
    \* --- Data manager and historical download ---
    redis_enabled,       \* DataManager.redis_client is not None
    cache,               \* the networked cache: key -> stored entry, or NoEntry
    files,               \* data/historical: file name -> stored table, {} when absent
    req,                 \* the request being served
    reqPc,               \* position of its handler
    dl,                  \* locals of download_historical and the calls it made
    served,              \* what the handler did: sources consulted, outcome
    nRequests,           \* number of requests started
    latest_price,        \* the cache entry latest_price:GBP_USD, or NoLatest
    cacheOp,             \* the last latest-price / clear-cache call and what it did
    \* --- Pure computations, each with the input it was given ---
    val,                 \* validate_ohlcv_data: input table, output table
    bt,                  \* BacktestEngine: its inputs, the run in progress, past results
    wf,                  \* WalkForwardAnalysis.run: arguments, locals, periods evaluated
    opt,                 \* StrategyOptimizer grid_search / random_search: the same
    mc,                  \* MonteCarloSimulation.run_simulation: fields and locals
    pm,                  \* the PortfolioManager: fields, and the last call's result
    fs                   \* filter_signals: arguments and locals

wsVars == <<active_connections, stream_task, tasks, nTasks, sess>>

envVars == <<configured, up>>

feedVars == <<feed_provider, providers, provider_name, consecutive_errors,
              feedPc, failover, lastTick>>

dataVars == <<redis_enabled, cache, files, req, reqPc, dl, served, nRequests>>

priceVars == <<latest_price, cacheOp>>

batchVars == <<val, bt, wf, opt, mc, pm, fs>>

\* Everything a step of one subsystem leaves alone.
nonWsVars == <<envVars, feedVars, dataVars, priceVars, batchVars>>
nonFeedVars == <<wsVars, dataVars, priceVars, batchVars>>
nonDataVars == <<wsVars, feedVars, priceVars, batchVars>>

\* The services, which a pure computation leaves alone.
serviceVars == <<wsVars, envVars, feedVars, dataVars, priceVars>>

vars == <<active_connections, stream_task, tasks, nTasks, sess,
          configured, up,
          feed_provider, providers, provider_name, consecutive_errors,
          feedPc, failover, lastTick,
          redis_enabled, cache, files, req, reqPc, dl, served, nRequests,
          latest_price, cacheOp, val, bt, wf, opt, mc, pm, fs>>

(* ------------------------------------------------------------------ *)
(* Sequence helpers                                                     *)
(* ------------------------------------------------------------------ *)

Range(s) == {s[i] : i \in 1..Len(s)}

\* list.remove(x): removes the first occurrence of x.
RECURSIVE ListRemove(_, _)
ListRemove(s, x) ==
    IF s = <<>> THEN <<>>
    ELSE IF Head(s) = x THEN Tail(s)
    ELSE <<Head(s)>> \o ListRemove(Tail(s), x)

(* ------------------------------------------------------------------ *)
(* Providers                                                            *)
(* ------------------------------------------------------------------ *)

ProviderNames == {"oanda", "alpha_vantage", "yahoo"}

\* Values of the `provider' argument: the three names and any other string.
Requested == ProviderNames \cup {"other"}

\* Providers usable in the process: yahoo_finance_provider always exists,
\* the other two only when their API key is set.
Available == configured \cup {"yahoo"}

\* The provider singletons and their health before any call.
EnvIdle ==
    /\ configured = {}
    /\ up = {}

EnvInit ==
    /\ configured \in SUBSET {"oanda", "alpha_vantage"}
    /\ up \in SUBSET ProviderNames

(* ------------------------------------------------------------------ *)
(* Live feed: stream_gbpusd_live                                        *)
(* ------------------------------------------------------------------ *)

max_errors == 5

NoFailover ==
    [ran |-> FALSE, from |-> "none", up |-> {}, probed |-> {},
     to |-> "none", errors |-> 0]

\* The provider list of stream_gbpusd_live.
FeedProviders(p, cfg) ==
    LET l1 == IF p = "oanda" /\ "oanda" \in cfg THEN <<"oanda">> ELSE <<>>
        l2 == IF p = "alpha_vantage" /\ "alpha_vantage" \in cfg
              THEN Append(l1, "alpha_vantage") ELSE l1
    IN  IF l2 = <<>> THEN Append(l2, "yahoo") ELSE l2

\* for name, prov in providers: one get_current_price() each, skipping the
\* name `skip', until one responds.  Yields the responder ("none" if no
\* provider responded) and the names probed.
RECURSIVE Probe(_, _, _)
Probe(ps, skip, resp) ==
    IF ps = <<>> THEN [found |-> "none", probed |-> {}]
    ELSE IF Head(ps) = skip THEN Probe(Tail(ps), skip, resp)
    ELSE IF Head(ps) \in resp THEN [found |-> Head(ps), probed |-> {Head(ps)}]
    ELSE LET r == Probe(Tail(ps), skip, resp)
         IN  [found |-> r.found, probed |-> r.probed \cup {Head(ps)}]

\* The generator before its first step.
FeedIdle ==
    /\ feed_provider = "oanda"
    /\ providers = <<>>
    /\ provider_name = "none"
    /\ consecutive_errors = 0
    /\ feedPc = "init"
    /\ failover = NoFailover
    /\ lastTick = "none"

\* First step: build the list, probe, select or raise.
FeedStart ==
    /\ feedPc = "init"
    /\ LET ps == FeedProviders(feed_provider, configured)
           r  == Probe(ps, "none", up)
       IN  /\ providers' = ps
           /\ provider_name' = r.found
           /\ feedPc' = IF r.found = "none" THEN "raised" ELSE "loop"
    /\ consecutive_errors' = 0
    /\ UNCHANGED <<feed_provider, failover, lastTick, envVars, nonFeedVars>>

\* provider_name == "oanda" and hasattr(current_provider, 'stream_live_prices')
NativeStream == provider_name = "oanda"

\* The error handler of the streaming loop stopping the generator when no
\* other provider responds at max_errors.
OnPriceError_GivesUp ==
    LET n  == consecutive_errors + 1
        r  == Probe(providers, provider_name, up)
        to == IF r.found # "none" THEN r.found ELSE provider_name
    IN  /\ IF n >= max_errors
           THEN /\ provider_name' = to
                /\ consecutive_errors' = IF r.found # "none" THEN 0 ELSE n
                /\ feedPc' = IF r.found # "none" THEN "loop" ELSE "raised"
                /\ failover' = [ran |-> TRUE, from |-> provider_name, up |-> up,
                                probed |-> r.probed, to |-> to,
                                errors |-> IF r.found # "none" THEN 0 ELSE n]
           ELSE /\ consecutive_errors' = n
                /\ feedPc' = "sleep_interval"
                /\ UNCHANGED <<provider_name, failover>>
        /\ UNCHANGED <<feed_provider, providers, lastTick, envVars, nonFeedVars>>

\* except Exception: count the error; at max_errors probe the other
\* providers of the list and switch to the first that responds, else sleep
\* 10 s; below max_errors sleep update_interval.
OnPriceError ==
    LET n  == consecutive_errors + 1
        r  == Probe(providers, provider_name, up)
        to == IF r.found # "none" THEN r.found ELSE provider_name
    IN  /\ IF n >= max_errors
           THEN /\ provider_name' = to
                /\ consecutive_errors' = IF r.found # "none" THEN 0 ELSE n
                /\ feedPc' = IF r.found # "none" THEN "loop" ELSE "sleep_10"
                /\ failover' = [ran |-> TRUE, from |-> provider_name, up |-> up,
                                probed |-> r.probed, to |-> to,
                                errors |-> IF r.found # "none" THEN 0 ELSE n]
           ELSE /\ consecutive_errors' = n
                /\ feedPc' = "sleep_interval"
                /\ UNCHANGED <<provider_name, failover>>
        /\ UNCHANGED <<feed_provider, providers, lastTick, envVars, nonFeedVars>>

\* Poll branch: price_data = current_provider.get_current_price(); yield.
FeedPoll ==
    /\ feedPc = "loop" /\ ~NativeStream
    /\ IF provider_name \in up
       THEN /\ feedPc' = "yielded"
            /\ lastTick' = provider_name
            /\ failover' = NoFailover
            /\ UNCHANGED <<feed_provider, providers, provider_name,
                           consecutive_errors, envVars, nonFeedVars>>
       ELSE OnPriceError

\* The consumer asks for the next tick: await asyncio.sleep(update_interval).
FeedAfterYield ==
    /\ feedPc = "yielded"
    /\ feedPc' = "sleep_ok"
    /\ UNCHANGED <<feed_provider, providers, provider_name, consecutive_errors,
                   failover, lastTick, envVars, nonFeedVars>>

\* The sleep after a tick is over: consecutive_errors = 0, loop.
FeedAfterTickSleep ==
    /\ feedPc = "sleep_ok"
    /\ consecutive_errors' = 0
    /\ feedPc' = "loop"
    /\ UNCHANGED <<feed_provider, providers, provider_name,
                   failover, lastTick, envVars, nonFeedVars>>

\* The sleep after an error below max_errors is over: loop.
FeedAfterErrorSleep ==
    /\ feedPc = "sleep_interval"
    /\ feedPc' = "loop"
    /\ UNCHANGED <<feed_provider, providers, provider_name, consecutive_errors,
                   failover, lastTick, envVars, nonFeedVars>>

\* The 10 s sleep ending without the reset of the counter.
FeedAfterBackoff_NoReset ==
    /\ feedPc = "sleep_10"
    /\ feedPc' = "loop"
    /\ UNCHANGED <<feed_provider, providers, provider_name, consecutive_errors,
                   failover, lastTick, envVars, nonFeedVars>>

\* The 10 s sleep is over: consecutive_errors = 0, loop.
FeedAfterBackoff ==
    /\ feedPc = "sleep_10"
    /\ consecutive_errors' = 0
    /\ feedPc' = "loop"
    /\ UNCHANGED <<feed_provider, providers, provider_name,
                   failover, lastTick, envVars, nonFeedVars>>

\* The native branch with a provider stream that lets the failure of its
\* price call out, to the error handler of stream_gbpusd_live.
OandaStream_Propagates ==
    /\ feedPc \in {"loop", "oanda_loop"} /\ NativeStream
    /\ IF provider_name \in up
       THEN /\ feedPc' = "oanda_yielded"
            /\ lastTick' = provider_name
            /\ UNCHANGED <<feed_provider, providers, provider_name,
                           consecutive_errors, failover, envVars, nonFeedVars>>
       ELSE OnPriceError

\* Native branch, OANDAProvider.stream_live_prices: a price call that
\* yields a tick, or fails and sleeps 5 s inside the provider's own loop.
OandaStream ==
    /\ feedPc \in {"loop", "oanda_loop"} /\ NativeStream
    /\ IF provider_name \in up
       THEN /\ feedPc' = "oanda_yielded"
            /\ lastTick' = provider_name
       ELSE /\ feedPc' = "oanda_sleep_5"
            /\ UNCHANGED lastTick
    /\ UNCHANGED <<feed_provider, providers, provider_name, consecutive_errors,
                   failover, envVars, nonFeedVars>>

\* The consumer asks for the next tick (await asyncio.sleep(1) in the
\* provider), or a sleep of the provider's loop is over.
OandaResume ==
    /\ \/ feedPc = "oanda_yielded" /\ feedPc' = "oanda_sleep_1"
       \/ feedPc \in {"oanda_sleep_1", "oanda_sleep_5"} /\ feedPc' = "oanda_loop"
    /\ UNCHANGED <<feed_provider, providers, provider_name, consecutive_errors,
                   failover, lastTick, envVars, nonFeedVars>>

\* Suspension points of the generator, where its consumer can cancel it.
FeedSuspended ==
    feedPc \in {"yielded", "sleep_ok", "sleep_interval", "sleep_10",
                "oanda_yielded", "oanda_sleep_1", "oanda_sleep_5"}

\* The consumer is cancelled or closes the generator.
FeedCancel ==
    /\ FeedSuspended
    /\ feedPc' = "cancelled"
    /\ UNCHANGED <<feed_provider, providers, provider_name, consecutive_errors,
                   failover, lastTick, envVars, nonFeedVars>>

\* A provider starts or stops responding.
ProviderChange ==
    /\ feedPc \notin {"init", "raised", "cancelled"}
    /\ \E p \in ProviderNames :
          up' = IF p \in up THEN up \ {p} ELSE up \cup {p}
    /\ UNCHANGED <<configured, feedVars, nonFeedVars>>

stream_gbpusd_live ==
    \/ FeedStart
    \/ FeedPoll
    \/ FeedAfterYield
    \/ FeedAfterTickSleep
    \/ FeedAfterErrorSleep
    \/ FeedAfterBackoff
    \/ OandaStream
    \/ OandaResume
    \/ FeedCancel

(* ------------------------------------------------------------------ *)
(* Historical download and data manager                                 *)
(* ------------------------------------------------------------------ *)

\* A table is the set of its candles' timestamps; dates are timestamps,
\* with 0 for None.
Times == 1..MaxTs
Tables == SUBSET Times
Dates == 0..MaxTs
Keys == Dates \X Dates
FileNames == {n \in Times \X Times : n[1] <= n[2]}

\* TTL of a historical entry in the networked cache, in seconds.
CacheTtl == 3600

NoEntry == [present |-> FALSE, tbl |-> {}, ttl |-> 0]

NoReq == [kind |-> "none", start |-> 0, end |-> 0, use_cache |-> FALSE,
          provider |-> "oanda"]

NoDl == [providers |-> <<>>, i |-> 0, candles |-> "empty", tbl |-> {},
         last_error |-> FALSE, log |-> <<>>, status |-> "none"]

NoServed == [consulted |-> <<>>, cacheOut |-> "skipped", fileOut |-> "skipped",
             writeOut |-> "skipped", saveOut |-> "skipped",
             status |-> "running", source |-> "none", tbl |-> {}]

SetMin(S) == CHOOSE x \in S : \A y \in S : x <= y
SetMax(S) == CHOOSE x \in S : \A y \in S : x >= y

Reverse(q) == [i \in 1..Len(q) |-> q[Len(q) + 1 - i]]

\* cache_key = f"historical:{symbol}:{timeframe}:{start_date}:{end_date}"
CacheKey(r) == <<r.start, r.end>>

\* The file name save_historical_data gives a table: its first and last day.
FileName(T) == <<SetMin(T), SetMax(T)>>

\* Order of two file names as strings.
NameLess(a, b) == a[1] < b[1] \/ (a[1] = b[1] /\ a[2] < b[2])

RECURSIVE SortedNames(_)
SortedNames(S) ==
    IF S = {} THEN <<>>
    ELSE LET m == CHOOSE x \in S : \A y \in S \ {x} : NameLess(x, y)
         IN  <<m>> \o SortedNames(S \ {m})

\* find_historical_data_files: the matching files, sorted by name.
find_historical_data_files == SortedNames({n \in FileNames : files[n] # {}})

\* The date mask of get_historical_data, applied only when both bounds are given.
DateFilter(T, start, end) ==
    IF start # 0 /\ end # 0 THEN {t \in T : t >= start /\ t <= end} ELSE T

\* for filepath in reversed(files): load (the files of `bad' fail to
\* load), filter, return the first non-empty table.
RECURSIVE ScanFiles(_, _, _, _)
ScanFiles(names, bad, start, end) ==
    IF names = <<>> THEN [found |-> FALSE, tbl |-> {}, reads |-> <<>>]
    ELSE LET n    == Head(names)
             T    == DateFilter(files[n], start, end)
             rest == ScanFiles(Tail(names), bad, start, end)
         IN  IF n \notin bad /\ T # {}
             THEN [found |-> TRUE, tbl |-> T, reads |-> <<"file">>]
             ELSE [found |-> rest.found, tbl |-> rest.tbl,
                   reads |-> <<"file">> \o rest.reads]

\* The provider list of download_historical.
DownloadProviders(p, cfg) ==
    LET l1 == IF p = "oanda" /\ "oanda" \in cfg THEN <<"oanda">> ELSE <<>>
        l2 == IF p = "alpha_vantage" /\ "alpha_vantage" \in cfg
              THEN Append(l1, "alpha_vantage") ELSE l1
    IN  IF p = "yahoo" \/ l2 = <<>> THEN Append(l2, "yahoo") ELSE l2

\* The aggregated failure raised only when a provider raised.
AllFailed_OnlyOnError(candles, last_error) == last_error

\* if not candles: raise Exception("All providers failed ...")
AllFailed(candles, last_error) == candles # "candles"

\* TTL of the latest price in the networked cache, in seconds.
LatestTtl == 60

NoLatest == [present |-> FALSE, ttl |-> 0]

\* No latest-price / clear-cache call made yet; `issued' is the set of
\* commands a call sent to the networked cache.
NoCacheOp == [op |-> "none", issued |-> {}, result |-> "none"]

\* The data layer after construction, with the cache unreachable.
DataIdle ==
    /\ redis_enabled = FALSE
    /\ cache = [k \in Keys |-> NoEntry]
    /\ files = [n \in FileNames |-> {}]
    /\ req = NoReq
    /\ reqPc = "idle"
    /\ dl = NoDl
    /\ served = NoServed
    /\ nRequests = 0
    /\ latest_price = NoLatest
    /\ cacheOp = NoCacheOp

\* A request arrives: DataManager.get_historical_data (kind "manager",
\* which downloads with the default provider) or the download route's call
\* of download_historical followed by save_historical_data (kind "route";
\* its dates only reach the provider, whose answer is free here anyway).
StartRequest ==
    /\ reqPc \in {"idle", "done"}
    /\ nRequests < MaxRequests
    /\ nRequests' = nRequests + 1
    /\ \/ \E start \in Dates, end \in Dates, uc \in BOOLEAN :
             /\ req' = [kind |-> "manager", start |-> start, end |-> end,
                        use_cache |-> uc, provider |-> "oanda"]
             /\ reqPc' = "cache"
       \/ \E p \in Requested :
             /\ req' = [kind |-> "route", start |-> 0, end |-> 0,
                        use_cache |-> FALSE, provider |-> p]
             /\ reqPc' = "download"
    /\ dl' = NoDl
    /\ served' = NoServed
    /\ UNCHANGED <<redis_enabled, cache, files, envVars, nonDataVars>>

\* get_historical_data, "Try Redis cache first", with every hit going on
\* to the local files.
ReadCache_FallsThrough ==
    /\ reqPc = "cache"
    /\ IF req.use_cache /\ redis_enabled
       THEN LET e == cache[CacheKey(req)]
                c == Append(served.consulted, "redis")
            IN  \/ /\ served' = [served EXCEPT !.consulted = c, !.cacheOut = "error"]
                   /\ reqPc' = "files"
                \/ /\ ~e.present
                   /\ served' = [served EXCEPT !.consulted = c, !.cacheOut = "miss"]
                   /\ reqPc' = "files"
                \/ /\ e.present /\ e.tbl = {}
                   /\ served' = [served EXCEPT !.consulted = c, !.cacheOut = "error"]
                   /\ reqPc' = "files"
                \/ /\ e.present /\ e.tbl # {}
                   /\ served' = [served EXCEPT !.consulted = c, !.cacheOut = "hit"]
                   /\ reqPc' = "files"
       ELSE /\ reqPc' = "files"
            /\ UNCHANGED served
    /\ UNCHANGED <<redis_enabled, cache, files, req, dl, nRequests,
                   envVars, nonDataVars>>

\* get_historical_data, "Try Redis cache first": the get may raise; an
\* absent key is a miss; a stored empty row list fails to deserialize
\* (no timestamp column), which the handler treats like a failed read; any
\* other stored table is returned.
ReadCache ==
    /\ reqPc = "cache"
    /\ IF req.use_cache /\ redis_enabled
       THEN LET e == cache[CacheKey(req)]
                c == Append(served.consulted, "redis")
            IN  \/ /\ served' = [served EXCEPT !.consulted = c, !.cacheOut = "error"]
                   /\ reqPc' = "files"
                \/ /\ ~e.present
                   /\ served' = [served EXCEPT !.consulted = c, !.cacheOut = "miss"]
                   /\ reqPc' = "files"
                \/ /\ e.present /\ e.tbl = {}
                   /\ served' = [served EXCEPT !.consulted = c, !.cacheOut = "error"]
                   /\ reqPc' = "files"
                \/ /\ e.present /\ e.tbl # {}
                   /\ served' = [served EXCEPT !.consulted = c, !.cacheOut = "hit",
                                   !.status = "returned", !.source = "redis",
                                   !.tbl = e.tbl]
                   /\ reqPc' = "done"
       ELSE /\ reqPc' = "files"
            /\ UNCHANGED served
    /\ UNCHANGED <<redis_enabled, cache, files, req, dl, nRequests,
                   envVars, nonDataVars>>

\* get_historical_data, "Try local file cache".
ReadFiles ==
    /\ reqPc = "files"
    /\ IF req.use_cache
       THEN \E bad \in SUBSET {n \in FileNames : files[n] # {}} :
              LET r == ScanFiles(Reverse(find_historical_data_files), bad,
                                 req.start, req.end)
                  c == served.consulted \o r.reads
              IN  IF r.found
                  THEN /\ served' = [served EXCEPT !.consulted = c, !.fileOut = "hit",
                                       !.status = "returned", !.source = "file",
                                       !.tbl = r.tbl]
                       /\ reqPc' = "done"
                  ELSE /\ served' = [served EXCEPT !.consulted = c, !.fileOut = "miss"]
                       /\ reqPc' = "download"
       ELSE /\ reqPc' = "download"
            /\ UNCHANGED served
    /\ UNCHANGED <<redis_enabled, cache, files, req, dl, nRequests,
                   envVars, nonDataVars>>

\* download_historical is entered: the provider list is built.
DownloadStart ==
    /\ reqPc = "download"
    /\ dl' = [NoDl EXCEPT !.providers = DownloadProviders(req.provider, configured),
                          !.i = 1, !.status = "running"]
    /\ served' = [served EXCEPT !.consulted = Append(@, "download")]
    /\ reqPc' = "dl_loop"
    /\ UNCHANGED <<redis_enabled, cache, files, req, nRequests, envVars, nonDataVars>>

\* One iteration of "for prov_name, prov in providers": the call raises,
\* returns no candle, or returns candles that clean to the table T.  After
\* the loop the aggregated failure is raised or the table returned.
DownloadCall ==
    /\ reqPc = "dl_loop"
    /\ \E out \in {"raise", "empty", "candles"}, T \in Tables :
          /\ out # "candles" => T = {}
          /\ LET name == dl.providers[dl.i]
                 cs   == IF out = "raise" THEN dl.candles ELSE out
                 le   == dl.last_error \/ out = "raise"
                 lg   == Append(dl.log, [name |-> name, out |-> out])
                 stop == out = "candles" \/ dl.i = Len(dl.providers)
             IN  IF ~stop
                 THEN /\ dl' = [dl EXCEPT !.i = @ + 1, !.candles = cs,
                                          !.last_error = le, !.log = lg]
                      /\ UNCHANGED <<reqPc, served>>
                 ELSE IF AllFailed(cs, le)
                 THEN /\ dl' = [dl EXCEPT !.candles = cs, !.last_error = le,
                                          !.log = lg, !.status = "all_failed"]
                      /\ served' = [served EXCEPT !.status = "raised"]
                      /\ reqPc' = "done"
                 ELSE /\ dl' = [dl EXCEPT !.candles = cs, !.last_error = le,
                                          !.log = lg, !.status = "ok", !.tbl = T]
                      /\ reqPc' = IF req.kind = "manager" THEN "store" ELSE "save"
                      /\ UNCHANGED served
    /\ UNCHANGED <<redis_enabled, cache, files, req, nRequests, envVars, nonDataVars>>

\* get_historical_data, "Cache the data", with a failed write reaching the caller.
WriteCache_Propagates ==
    /\ reqPc = "store"
    /\ IF redis_enabled
       THEN \/ /\ cache' = [cache EXCEPT ![CacheKey(req)] =
                               [present |-> TRUE, tbl |-> dl.tbl, ttl |-> CacheTtl]]
               /\ served' = [served EXCEPT !.writeOut = "ok"]
               /\ reqPc' = "save"
            \/ /\ served' = [served EXCEPT !.writeOut = "failed", !.status = "raised"]
               /\ reqPc' = "done"
               /\ UNCHANGED cache
       ELSE /\ reqPc' = "save"
            /\ UNCHANGED <<cache, served>>
    /\ UNCHANGED <<redis_enabled, files, req, dl, nRequests, envVars, nonDataVars>>

\* get_historical_data, "Cache the data": setex(cache_key, 3600, rows); a
\* failure is logged and swallowed.
WriteCache ==
    /\ reqPc = "store"
    /\ IF redis_enabled
       THEN \/ /\ cache' = [cache EXCEPT ![CacheKey(req)] =
                               [present |-> TRUE, tbl |-> dl.tbl, ttl |-> CacheTtl]]
               /\ served' = [served EXCEPT !.writeOut = "ok"]
            \/ /\ served' = [served EXCEPT !.writeOut = "failed"]
               /\ UNCHANGED cache
       ELSE UNCHANGED <<cache, served>>
    /\ reqPc' = "save"
    /\ UNCHANGED <<redis_enabled, files, req, dl, nRequests, envVars, nonDataVars>>

\* save_historical_data: the file name needs a first and a last timestamp,
\* so an empty table always fails; any write may fail.  The data manager
\* logs and swallows the failure, the download route does not.
SaveFile ==
    /\ reqPc = "save"
    /\ \E ok \in BOOLEAN :
          /\ ok => dl.tbl # {}
          /\ files' = IF ok THEN [files EXCEPT ![FileName(dl.tbl)] = dl.tbl] ELSE files
          /\ served' = [served EXCEPT
                 !.saveOut = IF ok THEN "ok" ELSE "failed",
                 !.status = IF ok \/ req.kind = "manager" THEN "returned" ELSE "raised",
                 !.source = IF ok \/ req.kind = "manager" THEN "download" ELSE "none",
                 !.tbl = IF ok \/ req.kind = "manager" THEN dl.tbl ELSE {}]
    /\ reqPc' = "done"
    /\ UNCHANGED <<redis_enabled, cache, req, dl, nRequests, envVars, nonDataVars>>

\* An entry of the networked cache expires; no handler runs long enough
\* for this to happen while a request is served.
CacheExpire ==
    /\ reqPc \in {"idle", "done"}
    /\ \E k \in Keys :
          /\ cache[k].present
          /\ cache' = [cache EXCEPT ![k] = NoEntry]
    /\ UNCHANGED <<redis_enabled, files, req, reqPc, dl, served, nRequests,
                   envVars, nonDataVars>>

\* A latest-price or clear-cache call is made: these are plain functions,
\* so they run between requests, never inside one.
CacheCall ==
    /\ reqPc \in {"idle", "done"}
    /\ nRequests < MaxRequests
    /\ nRequests' = nRequests + 1
    /\ UNCHANGED <<redis_enabled, files, req, reqPc, dl, served,
                   envVars, wsVars, feedVars, batchVars>>

\* DataManager.get_latest_price: None without a client; else a get, whose
\* value is returned when there is one, None on a miss or an error.
get_latest_price ==
    /\ CacheCall
    /\ IF ~redis_enabled
       THEN cacheOp' = [op |-> "get_latest_price", issued |-> {}, result |-> "none"]
       ELSE \/ cacheOp' = [op |-> "get_latest_price", issued |-> {"get"},
                           result |-> IF latest_price.present THEN "price" ELSE "none"]
            \/ cacheOp' = [op |-> "get_latest_price", issued |-> {"get"},
                           result |-> "none"]
    /\ UNCHANGED <<cache, latest_price>>

\* DataManager.cache_latest_price sending its setex whether or not there
\* is a client.
cache_latest_price_NoGuard ==
    /\ CacheCall
    /\ cacheOp' = [op |-> "cache_latest_price", issued |-> {"setex"},
                   result |-> "none"]
    /\ \/ latest_price' = [present |-> TRUE, ttl |-> LatestTtl]
       \/ UNCHANGED latest_price
    /\ UNCHANGED cache

\* DataManager.cache_latest_price: nothing without a client; else a setex
\* with a TTL of 60 s, whose failure is logged and swallowed.
cache_latest_price ==
    /\ CacheCall
    /\ IF ~redis_enabled
       THEN /\ cacheOp' = [op |-> "cache_latest_price", issued |-> {},
                           result |-> "none"]
            /\ UNCHANGED latest_price
       ELSE /\ cacheOp' = [op |-> "cache_latest_price", issued |-> {"setex"},
                           result |-> "none"]
            /\ \/ latest_price' = [present |-> TRUE, ttl |-> LatestTtl]
               \/ UNCHANGED latest_price
    /\ UNCHANGED cache

\* DataManager.clear_cache: nothing without a client; else the keys of
\* the pattern "historical:..." are listed (the pattern matches the stored
\* keys or none of them) and, when there are any, deleted; a failure of
\* either command is logged and swallowed.  The latest price is not a
\* historical key.
clear_cache ==
    /\ CacheCall
    /\ IF ~redis_enabled
       THEN /\ cacheOp' = [op |-> "clear_cache", issued |-> {}, result |-> "none"]
            /\ UNCHANGED cache
       ELSE \E matches \in BOOLEAN :
              LET keys == IF matches THEN {k \in Keys : cache[k].present} ELSE {}
              IN  \/ /\ cacheOp' = [op |-> "clear_cache", issued |-> {"keys"},
                                    result |-> "none"]
                     /\ UNCHANGED cache
                  \/ /\ keys # {}
                     /\ cacheOp' = [op |-> "clear_cache",
                                    issued |-> {"keys", "delete"}, result |-> "none"]
                     /\ \/ cache' = [k \in Keys |->
                                       IF k \in keys THEN NoEntry ELSE cache[k]]
                        \/ UNCHANGED cache
    /\ UNCHANGED latest_price

\* The latest price expires.
LatestExpire ==
    /\ reqPc \in {"idle", "done"}
    /\ latest_price.present
    /\ latest_price' = NoLatest
    /\ UNCHANGED <<cacheOp, dataVars, envVars, wsVars, feedVars, batchVars>>

get_historical_data == ReadCache \/ ReadFiles \/ WriteCache \/ SaveFile

download_historical == DownloadStart \/ DownloadCall

(* ------------------------------------------------------------------ *)
(* WebSocket gateway                                                    *)
(* ------------------------------------------------------------------ *)

\* A task that was never created.
NoTask ==
    [st |-> "none", cancel |-> FALSE, pc |-> "start",
     idx |-> 0, conn |-> 0, disconnected |-> <<>>,
     attempted |-> {}, stayed |-> {}, passDone |-> FALSE]

\* asyncio.create_task(stream_prices()): pending, not yet run.
NewTask == [NoTask EXCEPT !.st = "pending"]

\* Task.done()
TaskDone(tk, t) == tk[t].st = "done"

\* A task that is started and neither finished nor cancelled.
TaskActive(tk, t) == tk[t].st = "pending" /\ ~tk[t].cancel

ActiveTasks == {t \in TaskIds : TaskActive(tasks, t)}

\* Task.cancel(): a request; the task ends when it next runs.  A no-op on a
\* task that is done.
TaskCancel(tk, t) ==
    IF tk[t].st = "pending" THEN [tk EXCEPT ![t].cancel = TRUE] ELSE tk

\* ConnectionManager.disconnect without the cancellation of the broadcaster.
disconnect_NoCancel(ws, ac, tk, stk) ==
    LET ac2 == IF ws \in Range(ac) THEN ListRemove(ac, ws) ELSE ac
        tk2 == [t \in TaskIds |->
                  IF tk[t].st = "pending" /\ tk[t].pc = "send"
                  THEN [tk[t] EXCEPT !.stayed = @ \ {ws}] ELSE tk[t]]
    IN  [ac |-> ac2, tk |-> tk2]

\* ConnectionManager.disconnect(websocket), on registry ac, tasks tk and
\* stream_task stk; yields the new registry and tasks.  The field `stayed'
\* of a task in a broadcast pass records the sockets never deregistered
\* during that pass.
disconnect(ws, ac, tk, stk) ==
    LET ac2 == IF ws \in Range(ac) THEN ListRemove(ac, ws) ELSE ac
        tk2 == [t \in TaskIds |->
                  IF tk[t].st = "pending" /\ tk[t].pc = "send"
                  THEN [tk[t] EXCEPT !.stayed = @ \ {ws}] ELSE tk[t]]
    IN  [ac |-> ac2,
         tk |-> IF Len(ac2) = 0 /\ stk # 0 THEN TaskCancel(tk2, stk) ELSE tk2]

\* broadcast's trailing loop: for conn in disconnected: self.disconnect(conn)
RECURSIVE DisconnectAll(_, _, _, _)
DisconnectAll(ds, ac, tk, stk) ==
    IF ds = <<>> THEN [ac |-> ac, tk |-> tk]
    ELSE LET r == disconnect(Head(ds), ac, tk, stk)
         IN  DisconnectAll(Tail(ds), r.ac, r.tk, stk)

\* start_streaming without its test of the existing task.
StartsNewTask_Always(tk, stk) == TRUE

\* ConnectionManager.start_streaming: whether a new task is created.
StartsNewTask(tk, stk) == ~(stk # 0 /\ ~TaskDone(tk, stk))

\* await websocket.accept() returned: register, start streaming if first.
connect(ws) ==
    /\ sess[ws] = "new"
    /\ LET ac2 == Append(active_connections, ws)
       IN  /\ active_connections' = ac2
           /\ IF Len(ac2) = 1 /\ StartsNewTask(tasks, stream_task)
              THEN /\ nTasks' = nTasks + 1
                   /\ stream_task' = nTasks + 1
                   /\ tasks' = [tasks EXCEPT ![nTasks + 1] = NewTask]
              ELSE UNCHANGED <<nTasks, stream_task, tasks>>
    /\ sess' = [sess EXCEPT ![ws] = "recv"]
    /\ UNCHANGED nonWsVars

\* await websocket.accept() raised: the handler ends before registering.
connectFails(ws) ==
    /\ sess[ws] = "new"
    /\ sess' = [sess EXCEPT ![ws] = "closed"]
    /\ UNCHANGED <<active_connections, stream_task, tasks, nTasks, nonWsVars>>

\* The handler leaves its loop on WebSocketDisconnect: manager.disconnect.
EndpointDisconnect(ws) ==
    LET r == disconnect(ws, active_connections, tasks, stream_task)
    IN  /\ active_connections' = r.ac
        /\ tasks' = r.tk
        /\ sess' = [sess EXCEPT ![ws] = "closed"]
        /\ UNCHANGED <<stream_task, nTasks, nonWsVars>>

\* The handler leaves its loop on any other exception: nothing catches it.
EndpointError(ws) ==
    /\ sess' = [sess EXCEPT ![ws] = "closed"]
    /\ UNCHANGED <<active_connections, stream_task, tasks, nTasks, nonWsVars>>

\* data = await websocket.receive_text()
receive(ws) ==
    /\ sess[ws] = "recv"
    /\ \/ /\ sess' = [sess EXCEPT ![ws] = "reply"]
          /\ UNCHANGED <<active_connections, stream_task, tasks, nTasks, nonWsVars>>
       \/ EndpointDisconnect(ws)
       \/ EndpointError(ws)

\* await websocket.send_json({"type": "pong", "data": data})
reply(ws) ==
    /\ sess[ws] = "reply"
    /\ \/ /\ sess' = [sess EXCEPT ![ws] = "recv"]
          /\ UNCHANGED <<active_connections, stream_task, tasks, nTasks, nonWsVars>>
       \/ EndpointDisconnect(ws)
       \/ EndpointError(ws)

websocket_endpoint(ws) ==
    connect(ws) \/ connectFails(ws) \/ receive(ws) \/ reply(ws)

\* The task ends.
Finish(t) ==
    /\ tasks' = [tasks EXCEPT ![t] = [NoTask EXCEPT !.st = "done"]]
    /\ UNCHANGED <<active_connections, stream_task, nTasks, sess, nonWsVars>>

\* The live feed yielded a tick: broadcast if a socket is registered (the
\* pass starts and suspends in the first send), else leave the loop.
OnTick(t) ==
    IF Len(active_connections) > 0
    THEN /\ tasks' = [tasks EXCEPT
                ![t].pc = "send",
                ![t].idx = 1,
                ![t].conn = active_connections[1],
                ![t].disconnected = <<>>,
                ![t].stayed = Range(active_connections),
                ![t].attempted = {active_connections[1]},
                ![t].passDone = FALSE]
         /\ UNCHANGED <<active_connections, stream_task, nTasks, sess, nonWsVars>>
    ELSE Finish(t)

\* The live feed suspended without a tick (a failed price call).
OnFeedSleep(t) ==
    /\ tasks' = [tasks EXCEPT ![t] = [NoTask EXCEPT !.st = "pending", !.pc = "sleep"]]
    /\ UNCHANGED <<active_connections, stream_task, nTasks, sess, nonWsVars>>

\* The task resumes with a cancellation pending: CancelledError is raised
\* at its suspension point; no handler on the way catches it but the one of
\* stream_prices, which logs and returns.
TaskCancelled(t) ==
    /\ tasks[t].st = "pending" /\ tasks[t].cancel
    /\ Finish(t)

\* First run of the task: stream_gbpusd_live probes its provider and
\* raises when it does not respond, which ends the task.
TaskStart(t) ==
    /\ tasks[t].st = "pending" /\ ~tasks[t].cancel /\ tasks[t].pc = "start"
    /\ \/ Finish(t)
       \/ OnTick(t)
       \/ OnFeedSleep(t)

\* The feed's sleep is over: next price call.
TaskWake(t) ==
    /\ tasks[t].st = "pending" /\ ~tasks[t].cancel /\ tasks[t].pc = "sleep"
    /\ \/ OnTick(t)
       \/ OnFeedSleep(t)

\* broadcast: the send to tasks[t].conn completed (ok) or raised (~ok); the
\* list iterator moves on, and after the last element the failed sockets
\* are deregistered and the task returns to the feed, which sleeps.
BroadcastNext(t, ok) ==
    LET me   == tasks[t]
        dis  == IF ok THEN me.disconnected ELSE Append(me.disconnected, me.conn)
    IN  IF me.idx < Len(active_connections)
        THEN /\ tasks' = [tasks EXCEPT
                    ![t].disconnected = dis,
                    ![t].idx = me.idx + 1,
                    ![t].conn = active_connections[me.idx + 1],
                    ![t].attempted = @ \cup {active_connections[me.idx + 1]}]
             /\ UNCHANGED <<active_connections, stream_task, nTasks, sess, nonWsVars>>
        ELSE LET tk1 == [tasks EXCEPT
                            ![t].disconnected = dis,
                            ![t].pc = "sleep",
                            ![t].passDone = TRUE]
                 r   == DisconnectAll(dis, active_connections, tk1, stream_task)
             IN  /\ active_connections' = r.ac
                 /\ tasks' = r.tk
                 /\ UNCHANGED <<stream_task, nTasks, sess, nonWsVars>>

TaskSend(t) ==
    /\ tasks[t].st = "pending" /\ ~tasks[t].cancel /\ tasks[t].pc = "send"
    /\ \E ok \in BOOLEAN : BroadcastNext(t, ok)

\* One step of the broadcaster task, from one suspension point to the next.
stream_prices(t) ==
    TaskCancelled(t) \/ TaskStart(t) \/ TaskWake(t) \/ TaskSend(t)

\* The gateway after construction of the global manager.
WSIdle ==
    /\ active_connections = <<>>
    /\ stream_task = 0
    /\ tasks = [t \in TaskIds |-> NoTask]
    /\ nTasks = 0
    /\ sess = [s \in Sockets |-> "new"]

(* ------------------------------------------------------------------ *)
(* validate_ohlcv_data                                                  *)
(* ------------------------------------------------------------------ *)

\* Candles: prices are in units of 0.01; no value is missing.  There are
\* as many timestamps as rows, so that a table can have no duplicate.
Candles ==
    [timestamp : 1..MaxRows, open : {100, 120}, high : {105, 120},
     low : {100, 105}, close : {100, 105, 120}]

NoVal == [df |-> <<>>, out |-> <<>>, done |-> FALSE]

\* The rows of df at the indices of keep, in order.
RECURSIVE Rows(_, _, _)
Rows(df, keep, i) ==
    IF i > Len(df) THEN <<>>
    ELSE (IF i \in keep THEN <<df[i]>> ELSE <<>>) \o Rows(df, keep, i + 1)

\* df.drop_duplicates(subset=['timestamp']): the first row of each timestamp.
DropDuplicates(df) ==
    Rows(df, {i \in 1..Len(df) :
                \A j \in 1..(i - 1) : df[j].timestamp # df[i].timestamp}, 1)

\* invalid_mask
Invalid(r) ==
    \/ r.high < r.low
    \/ r.open > r.high
    \/ r.open < r.low
    \/ r.close > r.high
    \/ r.close < r.low

\* df['close'].pct_change().abs() > 0.1 at row i (closes are positive);
\* the first row has no change.
Outlier(df, i) ==
    /\ i > 1
    /\ LET d == df[i].close - df[i - 1].close
           a == IF d < 0 THEN -d ELSE d
       IN  10 * a > df[i - 1].close

\* validate_ohlcv_data(df); with no missing value the final fill changes
\* nothing.
validate_ohlcv_data(df) ==
    LET d1 == DropDuplicates(df)
        d2 == Rows(d1, {i \in 1..Len(d1) : ~Invalid(d1[i])}, 1)
    IN  IF Len(d2) > 1
        THEN Rows(d2, {i \in 1..Len(d2) : ~Outlier(d2, i)}, 1)
        ELSE d2

\* A row is added to the table that will be validated.
AddRow ==
    /\ ~val.done /\ Len(val.df) < MaxRows
    /\ \E r \in Candles : val' = [val EXCEPT !.df = Append(@, r)]
    /\ UNCHANGED <<serviceVars, bt, wf, opt, mc, pm, fs>>

Validate ==
    /\ ~val.done
    /\ val' = [val EXCEPT !.out = validate_ohlcv_data(val.df), !.done = TRUE]
    /\ UNCHANGED <<serviceVars, bt, wf, opt, mc, pm, fs>>

(* ------------------------------------------------------------------ *)
(* Backtest engine                                                      *)
(* ------------------------------------------------------------------ *)

\* _calculate_position_size, in units of 0.01 lot.
PositionSize == 1

\* An engine not yet constructed.  Money is in units in which every amount
\* below is a whole number; a bar is its open price and the signal the
\* strategy gives when it is called at that bar.  Bars are numbered from
\* 1.  `calls' lists the bars at which on_bar was called in the run;
\* lastNext is the last call of next that reached on_bar: its bar, the
\* table it built (the numbers of the bars that are its rows), what it
\* saw and what it submitted.
NoBt ==
    [bars |-> <<>>, capital |-> 0, phase |-> "input", runs |-> 0, i |-> 0,
     cash |-> 0, position |-> 0, entry |-> [price |-> 0, bar |-> 0, comm |-> 0],
     pending |-> [type |-> "none", size |-> 0],
     lastNext |-> [bar |-> 0, df |-> <<>>, signal |-> 0, position |-> 0,
                   order |-> [type |-> "none", size |-> 0]],
     calls |-> <<>>,
     orders |-> <<>>, trades |-> <<>>, results |-> <<>>]

\* The strategy's signal when called at bar n of the run.
on_bar(bars, n) == bars[n].signal

\* StrategyWrapper._get_dataframe at bar n: row i is read as
\* self.data.<line>[i] for i in range(len(self.data)); the simulator's
\* lines are indexed relative to the current bar (0 the current bar, 1
\* the bar after it), so row i is bar n + i.
get_dataframe(n) == [k \in 1..n |-> n + k - 1]

\* StrategyWrapper.next buying on every signal of 1.
next_BuysWithPosition(signal, position) ==
    IF signal = 1 THEN [type |-> "buy", size |-> PositionSize]
    ELSE IF signal = -1 /\ position # 0
    THEN [type |-> "sell", size |-> IF position < 0 THEN -position ELSE position]
    ELSE [type |-> "none", size |-> 0]

\* StrategyWrapper.next always selling on a signal of -1.
next_SellsWithoutPosition(signal, position) ==
    IF signal = 1 /\ position = 0 THEN [type |-> "buy", size |-> PositionSize]
    ELSE IF signal = -1
    THEN [type |-> "sell", size |-> IF position < 0 THEN -position ELSE position]
    ELSE [type |-> "none", size |-> 0]

\* StrategyWrapper.next: the order submitted for a signal, given the
\* position size.
next(signal, position) ==
    IF signal = 1 /\ position = 0 THEN [type |-> "buy", size |-> PositionSize]
    ELSE IF signal = -1 /\ position # 0
    THEN [type |-> "sell", size |-> IF position < 0 THEN -position ELSE position]
    ELSE [type |-> "none", size |-> 0]

\* The simulated broker at bar n: the market order submitted on the bar
\* before is filled at this bar's open, moved by the slippage (1%), with a
\* commission of 0.0001 of its value; a buy the cash cannot pay is
\* rejected.  notify_order records a completed fill, notify_trade a
\* position that closed.
BrokerFill(b, n) ==
    LET open == b.bars[n].open
        o    == b.pending
        px   == IF o.type = "buy" THEN open + open \div 100 ELSE open - open \div 100
        cm   == (px * o.size) \div 10000
    IN  IF o.type = "buy" /\ b.cash >= px * o.size + cm
        THEN [b EXCEPT !.cash = @ - px * o.size - cm,
                       !.position = @ + o.size,
                       !.entry = [price |-> px, bar |-> n - 1, comm |-> cm],
                       !.orders = Append(@, [type |-> "buy", price |-> px,
                                             size |-> o.size, bar |-> n - 1])]
        ELSE IF o.type = "sell"
        THEN [b EXCEPT !.cash = @ + px * o.size - cm,
                       !.position = @ - o.size,
                       !.orders = Append(@, [type |-> "sell", price |-> px,
                                             size |-> -o.size, bar |-> n - 1]),
                       !.trades = IF b.position = o.size
                                  THEN Append(@, [entry_price |-> b.entry.price,
                                                  size |-> o.size,
                                                  pnl |-> (px - b.entry.price) * o.size
                                                          - b.entry.comm - cm,
                                                  entry_bar |-> b.entry.bar,
                                                  exit_bar |-> n - 1])
                                  ELSE @]
        ELSE b

\* BacktestEngine.__init__ and its table, bar by bar.
AddBar ==
    /\ bt.phase = "input" /\ Len(bt.bars) < MaxBars
    /\ \E open \in {1000000, 2000000}, signal \in {-1, 0, 1}, capital \in {1000000, 5000000} :
          /\ bt.bars # <<>> => capital = bt.capital
          /\ bt' = [bt EXCEPT !.bars = Append(@, [open |-> open, signal |-> signal]),
                              !.capital = capital]
    /\ UNCHANGED <<serviceVars, val, wf, opt, mc, pm, fs>>

\* BacktestEngine.run keeping the strategy wrapper, with its order and
\* trade lists, from one run to the next.
StartRun_ReusesWrapper ==
    /\ bt.phase \in {"input", "idle"} /\ bt.bars # <<>> /\ bt.runs < MaxRuns
    /\ bt' = [NoBt EXCEPT !.bars = bt.bars, !.capital = bt.capital,
                          !.runs = bt.runs, !.results = bt.results,
                          !.orders = bt.orders, !.trades = bt.trades,
                          !.phase = "running", !.cash = bt.capital]
    /\ UNCHANGED <<serviceVars, val, wf, opt, mc, pm, fs>>

\* BacktestEngine.run, up to cerebro.run(): a new Cerebro, a new
\* StrategyWrapper with empty lists, the cash set to initial_capital.
StartRun ==
    /\ bt.phase \in {"input", "idle"} /\ bt.bars # <<>> /\ bt.runs < MaxRuns
    /\ bt' = [NoBt EXCEPT !.bars = bt.bars, !.capital = bt.capital,
                          !.runs = bt.runs, !.results = bt.results,
                          !.phase = "running", !.cash = bt.capital]
    /\ UNCHANGED <<serviceVars, val, wf, opt, mc, pm, fs>>

\* cerebro.run(), one bar: the broker first, then StrategyWrapper.next.
\* From the second bar on next builds its table; reading a row past the
\* end of the preloaded table raises IndexError, which ends the run:
\* BacktestEngine.run logs and re-raises it.
RunBar ==
    /\ bt.phase = "running" /\ bt.i < Len(bt.bars)
    /\ LET n == bt.i + 1
           b == BrokerFill(bt, n)
           df == get_dataframe(n)
           signal == on_bar(bt.bars, n)
           o == next(signal, b.position)
       IN  IF n < 2
           THEN bt' = [b EXCEPT !.i = n, !.pending = [type |-> "none", size |-> 0]]
           ELSE IF \E k \in 1..Len(df) : df[k] > Len(bt.bars)
           THEN bt' = [b EXCEPT
                         !.i = n, !.phase = "idle", !.runs = @ + 1,
                         !.pending = [type |-> "none", size |-> 0],
                         !.results = Append(@, [raised |-> TRUE,
                                                final_value |-> 0,
                                                total_trades |-> 0,
                                                orders |-> b.orders,
                                                trades |-> b.trades])]
           ELSE bt' = [b EXCEPT !.i = n, !.pending = o,
                                !.calls = Append(@, n),
                                !.lastNext = [bar |-> n, df |-> df,
                                              signal |-> signal,
                                              position |-> b.position,
                                              order |-> o]]
    /\ UNCHANGED <<serviceVars, val, wf, opt, mc, pm, fs>>

\* BacktestEngine.run after cerebro.run(): the result bundle.
FinishRun ==
    /\ bt.phase = "running" /\ bt.i = Len(bt.bars)
    /\ LET final_value == bt.cash + bt.position * bt.bars[bt.i].open
       IN  bt' = [bt EXCEPT
                    !.phase = "idle", !.runs = @ + 1,
                    !.results = Append(@, [raised |-> FALSE,
                                           final_value |-> final_value,
                                           total_trades |-> Len(bt.trades),
                                           orders |-> bt.orders,
                                           trades |-> bt.trades])]
    /\ UNCHANGED <<serviceVars, val, wf, opt, mc, pm, fs>>

(* ------------------------------------------------------------------ *)
(* Walk-forward analysis                                                *)
(* ------------------------------------------------------------------ *)

NoWf ==
    [total_bars |-> 0, optimization_period |-> 0, test_period |-> 0,
     step_size |-> 0, current_start |-> 0, results |-> <<>>,
     evaluated |-> <<>>, iterations |-> 0, phase |-> "idle"]

\* The arguments of run and the length of the table: small ones, and 400
\* bars with the default periods.
WfInputs ==
    [total_bars : 0..MaxTotalBars, optimization_period : 1..2,
     test_period : 1..2, step_size : 1..2]
    \cup {[total_bars |-> 400, optimization_period |-> 252,
           test_period |-> 63, step_size |-> 21]}

\* The same with periods of no bar.
WfInputsFrom0 ==
    [total_bars : 0..MaxTotalBars, optimization_period : 0..2,
     test_period : 0..2, step_size : 1..2]
    \cup {[total_bars |-> 400, optimization_period |-> 252,
           test_period |-> 63, step_size |-> 21]}

Min(a, b) == IF a <= b THEN a ELSE b

\* The loop condition of run with < for <=.
WfContinues_Strict(w) ==
    w.current_start + w.optimization_period + w.test_period < w.total_bars

\* The loop condition of run.
WfContinues(w) ==
    w.current_start + w.optimization_period + w.test_period <= w.total_bars

\* One pass of the loop stopping the run when the backtest raises.
WfPeriod_AbortsOnError ==
    /\ wf.phase = "loop" /\ WfContinues(wf)
    /\ LET test_start == wf.current_start + wf.optimization_period
           test_end   == Min(test_start + wf.test_period, wf.total_bars)
           period(ok) == [optimization_start |-> wf.current_start,
                          optimization_end |-> test_start,
                          test_start |-> test_start, test_end |-> test_end,
                          ok |-> ok]
       IN  \E ok \in BOOLEAN :
              wf' = [wf EXCEPT
                       !.results = IF ok THEN Append(@, period(ok)) ELSE @,
                       !.evaluated = Append(@, period(ok)),
                       !.phase = IF ok THEN "loop" ELSE "done",
                       !.iterations = @ + 1,
                       !.current_start = @ + wf.step_size]
    /\ UNCHANGED <<serviceVars, val, bt, opt, mc, pm, fs>>

\* One pass of the loop leaving the start where it is when the backtest
\* raises.
WfPeriod_StaysOnError ==
    /\ wf.phase = "loop" /\ WfContinues(wf)
    /\ LET test_start == wf.current_start + wf.optimization_period
           test_end   == Min(test_start + wf.test_period, wf.total_bars)
           period(ok) == [optimization_start |-> wf.current_start,
                          optimization_end |-> test_start,
                          test_start |-> test_start, test_end |-> test_end,
                          ok |-> ok]
       IN  IF test_end <= test_start
           THEN wf' = [wf EXCEPT !.phase = "done", !.iterations = @ + 1]
           ELSE \E ok \in BOOLEAN :
                  wf' = [wf EXCEPT
                           !.results = IF ok THEN Append(@, period(ok)) ELSE @,
                           !.evaluated = Append(@, period(ok)),
                           !.iterations = @ + 1,
                           !.current_start = IF ok THEN @ + wf.step_size ELSE @]
    /\ UNCHANGED <<serviceVars, val, bt, opt, mc, pm, fs>>

\* One pass of the loop of run: the windows are sliced, an empty test
\* window ends the loop, else the test window is backtested; a backtest
\* that raises is logged and adds no result; the start moves on.
WfPeriod ==
    /\ wf.phase = "loop" /\ WfContinues(wf)
    /\ LET test_start == wf.current_start + wf.optimization_period
           test_end   == Min(test_start + wf.test_period, wf.total_bars)
           period(ok) == [optimization_start |-> wf.current_start,
                          optimization_end |-> test_start,
                          test_start |-> test_start, test_end |-> test_end,
                          ok |-> ok]
       IN  IF test_end <= test_start
           THEN wf' = [wf EXCEPT !.phase = "done", !.iterations = @ + 1]
           ELSE \E ok \in BOOLEAN :
                  wf' = [wf EXCEPT
                           !.results = IF ok THEN Append(@, period(ok)) ELSE @,
                           !.evaluated = Append(@, period(ok)),
                           !.iterations = @ + 1,
                           !.current_start = @ + wf.step_size]
    /\ UNCHANGED <<serviceVars, val, bt, opt, mc, pm, fs>>

\* The loop is over: the aggregates are computed and returned.
WfReturn ==
    /\ wf.phase = "loop" /\ ~WfContinues(wf)
    /\ wf' = [wf EXCEPT !.phase = "done"]
    /\ UNCHANGED <<serviceVars, val, bt, opt, mc, pm, fs>>

(* ------------------------------------------------------------------ *)
(* Strategy optimizer                                                   *)
(* ------------------------------------------------------------------ *)

\* `items' holds every combination tried, `results' the summaries of the
\* successful ones, `out' the list returned.
NoOpt ==
    [kind |-> "none", param_values |-> <<>>, combos |-> <<>>, n |-> 0,
     results |-> <<>>,
     items |-> <<>>, out |-> <<>>, phase |-> "idle",
     best |-> [metric |-> "none", status |-> "none", best_params |-> <<>>,
               best_metric_value |-> [nan |-> FALSE, v |-> 0],
               all_results |-> <<>>]]

\* itertools.product(*param_values), in its order: the last list varies
\* fastest; one empty combination for no list at all.
RECURSIVE Product(_)
Product(param_values) ==
    IF param_values = <<>> THEN << <<>> >>
    ELSE LET rest == Product(Tail(param_values))
             vs   == Head(param_values)
             n    == Len(rest)
         IN  [k \in 1..(Len(vs) * n) |->
                <<vs[((k - 1) \div n) + 1]>> \o rest[((k - 1) % n) + 1]]

\* Parameter grids: up to two parameters, the values of a parameter being
\* 1, 2, ...; at most MaxItems combinations.
ParamGrids ==
    LET values(a) == [v \in 1..a |-> v]
    IN  {<<>>} \cup {<<values(a)>> : a \in 0..MaxItems}
        \cup {<<values(s[1]), values(s[2])>> :
                   s \in {t \in (0..MaxItems) \X (0..MaxItems) :
                             t[1] * t[2] <= MaxItems}}

\* What a backtest returns to the optimizer: a sharpe_ratio, which may be
\* NaN, and a total_return.
Summaries ==
    [sharpe_ratio : {1, 2}, sharpe_nan : BOOLEAN, total_return : {1, 3}]

\* The sort key of grid_search without the test for NaN.
GridKey_SharpeOnly(x) == [nan |-> x.sharpe_nan, v |-> x.sharpe_ratio]

\* The sort key of grid_search: sharpe_ratio, total_return when it is NaN.
GridKey(x) ==
    IF ~x.sharpe_nan THEN [nan |-> FALSE, v |-> x.sharpe_ratio]
    ELSE [nan |-> FALSE, v |-> x.total_return]

\* The sort key of random_search.
RandomKey(x) == [nan |-> x.sharpe_nan, v |-> x.sharpe_ratio]

\* a < b on floats: false when either is NaN.
Less(a, b) == ~a.nan /\ ~b.nan /\ a.v < b.v

\* list.sort(key=..., reverse=True) on rows carrying their key: a stable
\* sort, larger keys first.
RECURSIVE SortDesc(_)
SortDesc(xs) ==
    IF xs = <<>> THEN <<>>
    ELSE LET x    == xs[Len(xs)]
             done == SortDesc(SubSeq(xs, 1, Len(xs) - 1))
             at   == {k \in 1..Len(done) : Less(done[k].key, x.key)}
             pos  == IF at = {} THEN Len(done) + 1
                     ELSE CHOOSE k \in at : \A j \in at : k <= j
         IN  SubSeq(done, 1, pos - 1) \o <<x>> \o SubSeq(done, pos, Len(done))

\* One pass of the loop of grid_search or random_search: the strategy is
\* built and backtested; a failure is logged and the loop continues.
OptItem ==
    /\ opt.phase = "loop" /\ Len(opt.items) < opt.n
    /\ LET i == Len(opt.items) + 1
       IN  \E params \in IF opt.kind = "grid_search" THEN {opt.combos[i]}
                         ELSE {<<1>>, <<2>>} :
              \/ opt' = [opt EXCEPT !.items = Append(@, [params |-> params, ok |-> FALSE])]
              \/ \E r \in Summaries :
                    opt' = [opt EXCEPT
                              !.items = Append(@, [params |-> params, ok |-> TRUE]),
                              !.results = Append(@, [item |-> i, params |-> params,
                                                     sharpe_ratio |-> r.sharpe_ratio,
                                                     sharpe_nan |-> r.sharpe_nan,
                                                     total_return |-> r.total_return])]
    /\ UNCHANGED <<serviceVars, val, bt, wf, mc, pm, fs>>

\* The loop is over: the results are sorted and returned.
OptReturn ==
    /\ opt.phase = "loop" /\ Len(opt.items) = opt.n
    /\ LET keyed == [k \in 1..Len(opt.results) |->
                       [row |-> opt.results[k],
                        key |-> IF opt.kind = "grid_search"
                                THEN GridKey(opt.results[k])
                                ELSE RandomKey(opt.results[k])]]
           sorted == SortDesc(keyed)
       IN  opt' = [opt EXCEPT !.out = [k \in 1..Len(sorted) |-> sorted[k].row],
                              !.phase = "done"]
    /\ UNCHANGED <<serviceVars, val, bt, wf, mc, pm, fs>>

\* optimize_by_metric after its call of grid_search: it raises on an empty
\* list, else returns the parameters of the first result, that result's
\* value of the metric, and the first ten results.
optimize_by_metric ==
    /\ opt.phase = "done" /\ opt.kind = "grid_search"
    /\ \E metric \in {"sharpe_ratio", "total_return"} :
          IF opt.out = <<>>
          THEN opt' = [opt EXCEPT !.phase = "optimized",
                                  !.best.metric = metric,
                                  !.best.status = "raised"]
          ELSE LET best == opt.out[1]
               IN  opt' = [opt EXCEPT
                      !.phase = "optimized",
                      !.best = [metric |-> metric, status |-> "returned",
                                best_params |-> best.params,
                                best_metric_value |->
                                   IF metric = "sharpe_ratio"
                                   THEN [nan |-> best.sharpe_nan,
                                         v |-> best.sharpe_ratio]
                                   ELSE [nan |-> FALSE, v |-> best.total_return],
                                all_results |->
                                   SubSeq(opt.out, 1, Min(10, Len(opt.out)))]]
    /\ UNCHANGED <<serviceVars, val, bt, wf, mc, pm, fs>>

(* ------------------------------------------------------------------ *)
(* Monte Carlo simulation                                               *)
(* ------------------------------------------------------------------ *)

\* `order' is the draw of random.sample: shuffled_trades[i] is
\* trades[order[i]]; `k' trades of it have been applied.  max_dd is kept
\* as the fraction num / den (den > 0) it was computed from.
NoMc ==
    [trades |-> <<>>, initial_capital |-> 0, n_simulations |-> 0,
     order |-> <<>>, k |-> 0, equity |-> 0, peak_equity |-> 0,
     max_dd |-> [num |-> 0, den |-> 1],
     final_values |-> <<>>, max_drawdowns |-> <<>>, phase |-> "idle"]

\* Trades: with a pnl, or without one.
Trades == {[pnl |-> -10], [pnl |-> 20], [size |-> 1]}

\* trade.get("pnl", 0)
Pnl(trade) == IF "pnl" \in DOMAIN trade THEN trade.pnl ELSE 0

\* random.choices: a draw with replacement.
Sample_WithReplacement(n) == [1..n -> 1..n]

\* random.sample(self.trades, len(self.trades)): the draws without
\* replacement of all the positions of the list.
Sample(n) == {f \in [1..n -> 1..n] : \A i, j \in 1..n : f[i] = f[j] => i = j}

\* A run starts: the trades are shuffled, the equity is the capital.
McSample ==
    /\ mc.phase = "loop" /\ mc.trades # <<>>
    /\ Len(mc.final_values) < mc.n_simulations
    /\ \E f \in Sample(Len(mc.trades)) :
          mc' = [mc EXCEPT !.order = f, !.k = 0,
                           !.equity = mc.initial_capital,
                           !.peak_equity = mc.initial_capital,
                           !.max_dd = [num |-> 0, den |-> 1],
                           !.phase = "run"]
    /\ UNCHANGED <<serviceVars, val, bt, wf, opt, pm, fs>>

\* The next trade of the shuffled list is applied; the division by a peak
\* of zero raises.
McApply ==
    /\ mc.phase = "run" /\ mc.k < Len(mc.order)
    /\ LET trade  == mc.trades[mc.order[mc.k + 1]]
           equity == mc.equity + Pnl(trade)
           peak   == IF equity > mc.peak_equity THEN equity ELSE mc.peak_equity
       IN  IF peak = 0
           THEN mc' = [mc EXCEPT !.k = @ + 1, !.equity = equity,
                                 !.peak_equity = peak, !.phase = "raised"]
           ELSE mc' = [mc EXCEPT
                         !.k = @ + 1, !.equity = equity, !.peak_equity = peak,
                         !.max_dd =
                            IF (equity - peak) * mc.max_dd.den < mc.max_dd.num * peak
                            THEN [num |-> equity - peak, den |-> peak]
                            ELSE @]
    /\ UNCHANGED <<serviceVars, val, bt, wf, opt, pm, fs>>

\* The run is over: its final equity and its drawdown are collected.
McEndRun ==
    /\ mc.phase = "run" /\ mc.k = Len(mc.order)
    /\ mc' = [mc EXCEPT
                !.final_values = Append(@, mc.equity),
                !.max_drawdowns = Append(@, [num |-> 0 - mc.max_dd.num,
                                             den |-> mc.max_dd.den]),
                !.phase = "loop"]
    /\ UNCHANGED <<serviceVars, val, bt, wf, opt, pm, fs>>

\* The neutral result for no trades; else the statistics of the runs,
\* whose indexing raises when there was no run.
McReturn ==
    /\ mc.phase = "loop"
    /\ mc.trades = <<>> \/ Len(mc.final_values) >= mc.n_simulations
    /\ mc' = [mc EXCEPT !.phase = IF mc.trades # <<>> /\ mc.final_values = <<>>
                                  THEN "raised" ELSE "done"]
    /\ UNCHANGED <<serviceVars, val, bt, wf, opt, pm, fs>>

(* ------------------------------------------------------------------ *)
(* Portfolio manager                                                    *)
(* ------------------------------------------------------------------ *)

\* `op', `arg' and `ret' are the last call, its argument and its result;
\* `calls' counts the calls; `mark' is the number of positions held when
\* daily_pnl was last assigned.
NoPm ==
    [max_daily_loss |-> 0, positions |-> <<>>, daily_pnl |-> 0,
     op |-> "none", arg |-> <<>>, ret |-> "none", calls |-> 0, mark |-> 0]

\* Positions: with a risk_amount, or without one.
Positions ==
    {[size |-> 1], [size |-> 1, risk_amount |-> 5], [risk_amount |-> 10],
     [risk_amount |-> -5]}

\* position.get(key, 0)
Get(position, key) == IF key \in DOMAIN position THEN position[key] ELSE 0

\* can_open_position with its first test only.
can_open_position_NoRiskCheck(position_size, risk_amount) ==
    IF pm.daily_pnl <= 0 - pm.max_daily_loss THEN FALSE
    ELSE TRUE

can_open_position(position_size, risk_amount) ==
    IF pm.daily_pnl <= 0 - pm.max_daily_loss THEN FALSE
    ELSE IF (pm.daily_pnl - risk_amount) < 0 - pm.max_daily_loss THEN FALSE
    ELSE TRUE

add_position ==
    /\ pm.calls < MaxCalls
    /\ \E position \in Positions :
          IF can_open_position(Get(position, "size"), Get(position, "risk_amount"))
          THEN pm' = [pm EXCEPT !.positions = Append(@, position),
                                !.op = "add_position", !.arg = position,
                                !.ret = TRUE, !.calls = @ + 1]
          ELSE pm' = [pm EXCEPT !.op = "add_position", !.arg = position,
                                !.ret = FALSE, !.calls = @ + 1]
    /\ UNCHANGED <<serviceVars, val, bt, wf, opt, mc, fs>>

update_daily_pnl ==
    /\ pm.calls < MaxCalls
    /\ \E pnl \in {-10, -5, 0, 5} :
          pm' = [pm EXCEPT !.daily_pnl = pnl, !.op = "update_daily_pnl",
                           !.arg = <<>>, !.ret = "none", !.calls = @ + 1,
                           !.mark = Len(pm.positions)]
    /\ UNCHANGED <<serviceVars, val, bt, wf, opt, mc, fs>>

reset_daily ==
    /\ pm.calls < MaxCalls
    /\ pm' = [pm EXCEPT !.daily_pnl = 0, !.op = "reset_daily",
                        !.arg = <<>>, !.ret = "none", !.calls = @ + 1,
                        !.mark = Len(pm.positions)]
    /\ UNCHANGED <<serviceVars, val, bt, wf, opt, mc, fs>>

(* ------------------------------------------------------------------ *)
(* Signal filtering                                                     *)
(* ------------------------------------------------------------------ *)

\* `i' bars have been processed.
NoFs ==
    [signals |-> <<>>, min_hold_period |-> 0, filtered |-> <<>>,
     last_signal |-> 0, hold_count |-> 0, i |-> 0, phase |-> "idle"]

\* The test of the hold counter, always passed.
Suppressed_Never(hold_count, min_hold_period) == FALSE

\* Whether a new signal is overwritten: hold_count < min_hold_period.
Suppressed(hold_count, min_hold_period) == hold_count < min_hold_period

\* One pass of the loop of filter_signals.
FilterStep ==
    /\ fs.phase = "loop" /\ fs.i < Len(fs.filtered)
    /\ LET i == fs.i + 1
           x == fs.filtered[i]
       IN  IF x # 0 /\ x # fs.last_signal
           THEN IF Suppressed(fs.hold_count, fs.min_hold_period)
                THEN fs' = [fs EXCEPT !.filtered[i] = 0, !.i = i]
                ELSE fs' = [fs EXCEPT !.last_signal = x, !.hold_count = 0,
                                      !.i = i]
           ELSE fs' = [fs EXCEPT !.hold_count = @ + 1, !.i = i]
    /\ UNCHANGED <<serviceVars, val, bt, wf, opt, mc, pm>>

\* The loop is over: the filtered series is returned.
FilterReturn ==
    /\ fs.phase = "loop" /\ fs.i = Len(fs.filtered)
    /\ fs' = [fs EXCEPT !.phase = "done"]
    /\ UNCHANGED <<serviceVars, val, bt, wf, opt, mc, pm>>

(* ------------------------------------------------------------------ *)
(* Specifications                                                       *)
(* ------------------------------------------------------------------ *)

\* The pure computations before any is run.
BatchIdle ==
    /\ val = NoVal /\ bt = NoBt /\ wf = NoWf /\ opt = NoOpt
    /\ mc = NoMc /\ pm = NoPm /\ fs = NoFs

ServicesIdle == WSIdle /\ EnvIdle /\ FeedIdle /\ DataIdle

InitWS ==
    /\ WSIdle
    /\ EnvIdle
    /\ FeedIdle
    /\ DataIdle
    /\ BatchIdle

NextWS ==
    \/ \E ws \in Sockets : websocket_endpoint(ws)
    \/ \E t \in TaskIds : stream_prices(t)

\* The event loop resumes every task that is ready; in particular a task
\* whose cancellation was requested is eventually resumed.
SpecWS ==
    InitWS /\ [][NextWS]_vars /\ \A t \in TaskIds : WF_vars(TaskCancelled(t))

InitFeed ==
    /\ WSIdle
    /\ DataIdle
    /\ BatchIdle
    /\ EnvInit
    /\ feed_provider \in Requested
    /\ providers = <<>>
    /\ provider_name = "none"
    /\ consecutive_errors = 0
    /\ feedPc = "init"
    /\ failover = NoFailover
    /\ lastTick = "none"

NextFeed == stream_gbpusd_live \/ ProviderChange

SpecFeed == InitFeed /\ [][NextFeed]_vars

InitData ==
    /\ WSIdle
    /\ FeedIdle
    /\ BatchIdle
    /\ configured \in SUBSET {"oanda", "alpha_vantage"}
    /\ up = {}
    /\ redis_enabled \in BOOLEAN
    /\ cache = [k \in Keys |-> NoEntry]
    /\ files = [n \in FileNames |-> {}]
    /\ req = NoReq
    /\ reqPc = "idle"
    /\ dl = NoDl
    /\ served = NoServed
    /\ nRequests = 0
    /\ latest_price = NoLatest
    /\ cacheOp = NoCacheOp

NextData ==
    \/ StartRequest
    \/ get_historical_data
    \/ download_historical
    \/ CacheExpire
    \/ get_latest_price
    \/ cache_latest_price
    \/ clear_cache
    \/ LatestExpire

SpecData == InitData /\ [][NextData]_vars

InitValidate == ServicesIdle /\ BatchIdle

NextValidate == AddRow \/ Validate

SpecValidate == InitValidate /\ [][NextValidate]_vars

InitBacktest == ServicesIdle /\ BatchIdle

NextBacktest == AddBar \/ StartRun \/ RunBar \/ FinishRun

SpecBacktest == InitBacktest /\ [][NextBacktest]_vars

\* A batch operation is called: WalkForwardAnalysis.run, grid_search,
\* random_search or run_simulation.
InitBatch ==
    /\ ServicesIdle
    /\ val = NoVal /\ bt = NoBt /\ pm = NoPm /\ fs = NoFs
    /\ \/ /\ opt = NoOpt /\ mc = NoMc
          /\ \E a \in WfInputs :
                wf = [NoWf EXCEPT !.total_bars = a.total_bars,
                                  !.optimization_period = a.optimization_period,
                                  !.test_period = a.test_period,
                                  !.step_size = a.step_size,
                                  !.phase = "loop"]
       \/ /\ wf = NoWf /\ mc = NoMc
          /\ \E g \in ParamGrids :
                opt = [NoOpt EXCEPT !.kind = "grid_search",
                                    !.param_values = g,
                                    !.combos = Product(g),
                                    !.n = Len(Product(g)),
                                    !.phase = "loop"]
       \/ /\ wf = NoWf /\ mc = NoMc
          /\ \E n \in 0..MaxItems :
                opt = [NoOpt EXCEPT !.kind = "random_search", !.n = n,
                                    !.phase = "loop"]
       \/ /\ wf = NoWf /\ opt = NoOpt
          /\ \E len \in 0..MaxTrades :
             \E trades \in [1..len -> Trades], capital \in {0, 100},
                n \in 0..MaxSims :
                mc = [NoMc EXCEPT !.trades = trades,
                                  !.initial_capital = capital,
                                  !.n_simulations = n,
                                  !.phase = "loop"]

\* A portfolio manager is constructed.
InitPortfolio ==
    /\ ServicesIdle
    /\ val = NoVal /\ bt = NoBt /\ wf = NoWf /\ opt = NoOpt /\ mc = NoMc
    /\ fs = NoFs
    /\ \E max_daily_loss \in {-5, 0, 5, 10} :
          pm = [NoPm EXCEPT !.max_daily_loss = max_daily_loss]

NextPortfolio == add_position \/ update_daily_pnl \/ reset_daily

SpecPortfolio == InitPortfolio /\ [][NextPortfolio]_vars

\* filter_signals is called on a series of signals.
InitSignals ==
    /\ ServicesIdle
    /\ val = NoVal /\ bt = NoBt /\ wf = NoWf /\ opt = NoOpt /\ mc = NoMc
    /\ pm = NoPm
    /\ \E len \in 0..MaxSignals :
       \E signals \in [1..len -> {-1, 0, 1}], min_hold_period \in 0..2 :
          fs = [NoFs EXCEPT !.signals = signals, !.filtered = signals,
                            !.min_hold_period = min_hold_period,
                            !.phase = "loop"]

NextSignals == FilterStep \/ FilterReturn

SpecSignals == InitSignals /\ [][NextSignals]_vars

\* WalkForwardAnalysis.run is called, with periods of any length; a pass
\* of its loop that can be made is made.
InitWalkForward ==
    /\ ServicesIdle
    /\ val = NoVal /\ bt = NoBt /\ opt = NoOpt /\ mc = NoMc /\ pm = NoPm
    /\ fs = NoFs
    /\ \E a \in WfInputsFrom0 :
          wf = [NoWf EXCEPT !.total_bars = a.total_bars,
                            !.optimization_period = a.optimization_period,
                            !.test_period = a.test_period,
                            !.step_size = a.step_size,
                            !.phase = "loop"]

NextWalkForward == WfPeriod \/ WfReturn

SpecWalkForward ==
    InitWalkForward /\ [][NextWalkForward]_vars /\ WF_vars(NextWalkForward)

NextBatch ==
    \/ WfPeriod \/ WfReturn
    \/ OptItem \/ OptReturn \/ optimize_by_metric
    \/ McSample \/ McApply \/ McEndRun \/ McReturn

SpecBatch == InitBatch /\ [][NextBatch]_vars

(* ------------------------------------------------------------------ *)
(* Claims on the WebSocket gateway (checked under SpecWS)               *)
(* ------------------------------------------------------------------ *)

\* C1: whenever at least one WebSocket is registered, exactly one
\* broadcaster task is active (started, neither finished nor cancelled).
C1_OneActiveBroadcasterWhileRegistered ==
    Len(active_connections) > 0 => Cardinality(ActiveTasks) = 1

\* A step in which task t hands a message to a socket.
SendInitiated(t) ==
    /\ tasks'[t].pc = "send"
    /\ tasks[t].pc # "send" \/ tasks'[t].idx # tasks[t].idx

\* C2: whenever a disconnect has left the registry empty and a broadcaster
\* task exists, that task is cancelled (or already done); a task whose
\* cancellation was requested eventually stops; and every price_update is
\* handed to a socket that is registered at that moment, so none is sent
\* while the registry is empty.
C2_EmptyRegistryStopsBroadcaster ==
    /\ [](Len(active_connections) = 0 /\ stream_task # 0
            => tasks[stream_task].st = "done" \/ tasks[stream_task].cancel)
    /\ \A t \in TaskIds :
          (tasks[t].st = "pending" /\ tasks[t].cancel) ~> (tasks[t].st = "done")
    /\ [][\A t \in TaskIds :
            SendInitiated(t) =>
                /\ Len(active_connections) > 0
                /\ tasks'[t].conn \in Range(active_connections')]_vars

\* C2 witness: the last client's disconnect has requested the cancellation
\* of the broadcaster, which has not run yet.
C2_Witness ==
    /\ Len(active_connections) = 0
    /\ stream_task # 0
    /\ tasks[stream_task].st = "pending"
    /\ tasks[stream_task].cancel
    /\ \E ws \in Sockets : sess[ws] = "closed"

\* C3: when a broadcast pass has completed, every socket that was
\* registered when the pass started (and stayed registered throughout it)
\* has had a send attempted, and no socket whose send failed is still
\* registered.
C3_BroadcastReachesEverySocket ==
    \A t \in TaskIds :
        tasks[t].passDone =>
            /\ tasks[t].stayed \subseteq tasks[t].attempted
            /\ Range(tasks[t].disconnected) \cap Range(active_connections) = {}

\* C4: once a session's receive/reply loop has ended, its socket is no
\* longer in the connection registry.
C4_EndedSessionDeregistered ==
    \A ws \in Sockets : sess[ws] = "closed" => ws \notin Range(active_connections)


(* ------------------------------------------------------------------ *)
(* Claims on the live feed (checked under SpecFeed)                     *)
(* ------------------------------------------------------------------ *)

\* C5: when consecutive_errors reaches 5 the generator probes every other
\* configured provider once and, if one of them responds, makes the first
\* responder the active provider and resets consecutive_errors to 0.
C5_FailoverSwitchesToResponder ==
    failover.ran =>
        LET others == Available \ {failover.from}
        IN  IF others \cap failover.up # {}
            THEN /\ failover.to \in others \cap failover.up
                 /\ failover.errors = 0
            ELSE failover.probed = others

\* C6: once the initial probe has selected a provider, the generator never
\* returns and never raises, whatever the providers do.
C6_FeedNeverEndsOnItsOwn ==
    provider_name # "none" => feedPc \notin {"raised", "returned"}

\* C6 witness: the error handler has run at max_errors, found no provider
\* to switch to, slept, and the generator is back in its loop.
C6_Witness ==
    /\ failover.ran
    /\ failover.to = failover.from
    /\ feedPc = "loop"
    /\ consecutive_errors = 0


(* ------------------------------------------------------------------ *)
(* Claims on the download and the data manager (checked under SpecData) *)
(* ------------------------------------------------------------------ *)

\* download_historical has left its provider loop.
DownloadConcluded == dl.status \in {"ok", "all_failed"}

\* C7: download_historical calls the providers of its list in order, stops
\* at the first one that returns a non-empty candle list, and raises the
\* aggregated failure exactly when no provider returned a non-empty result.
C7_DownloadStopsAtFirstSuccess ==
    LET n == Len(dl.log)
    IN  /\ n <= Len(dl.providers)
        /\ \A i \in 1..n : dl.log[i].name = dl.providers[i]
        /\ \A i \in 1..(n - 1) : dl.log[i].out # "candles"
        /\ DownloadConcluded =>
              /\ n >= 1
              /\ n < Len(dl.providers) => dl.log[n].out = "candles"
              /\ dl.status = "all_failed" <=>
                    \A i \in 1..n : dl.log[i].out # "candles"

\* C7 witness: a provider answered with no candle and without raising, no
\* provider is left, and the aggregated failure was raised.
C7_Witness ==
    /\ dl.status = "all_failed"
    /\ Len(dl.log) = Len(dl.providers)
    /\ dl.log[Len(dl.log)].out = "empty"
    /\ served.status = "raised"

\* C8: Yahoo Finance is the unconditional fallback: when the requested
\* provider fails, Yahoo Finance is tried, and the download fails only
\* after Yahoo Finance has been tried and has failed.
C8_YahooIsUnconditionalFallback ==
    DownloadConcluded =>
        /\ dl.log[1].out # "candles" => \E i \in 1..Len(dl.log) : dl.log[i].name = "yahoo"
        /\ dl.status = "all_failed" =>
              \E i \in 1..Len(dl.log) :
                  dl.log[i].name = "yahoo" /\ dl.log[i].out # "candles"

SourceRank(src) == IF src = "redis" THEN 1 ELSE IF src = "file" THEN 2 ELSE 3

\* C9: with use_cache the data manager consults the networked cache, then
\* the local files, then the download, in this order; a cache hit returns
\* with no file read and no download, a file hit returns with no download,
\* and the download is called only when both caches missed.
C9_CacheThenFilesThenDownload ==
    (req.kind = "manager" /\ req.use_cache) =>
        LET c == served.consulted
        IN  /\ \A i \in 1..Len(c), j \in 1..Len(c) :
                  i < j => /\ SourceRank(c[i]) <= SourceRank(c[j])
                           /\ c[i] = c[j] => c[i] = "file"
            /\ served.cacheOut = "hit" =>
                  /\ c = <<"redis">>
                  /\ reqPc = "done" /\ served.status = "returned"
                  /\ served.source = "redis"
            /\ served.fileOut = "hit" =>
                  /\ "download" \notin Range(c)
                  /\ reqPc = "done" /\ served.status = "returned"
                  /\ served.source = "file" /\ served.tbl # {}
            /\ "download" \in Range(c) =>
                  /\ served.cacheOut # "hit"
                  /\ served.fileOut = "miss"
            /\ (reqPc = "done" /\ served.status = "returned") =>
                  served.source = IF served.cacheOut = "hit" THEN "redis"
                                  ELSE IF served.fileOut = "hit" THEN "file"
                                  ELSE "download"

\* C9 witness: the cache was read and missed, a file was read and matched,
\* and the request returned without a download.
C9_Witness ==
    /\ req.kind = "manager" /\ req.use_cache
    /\ reqPc = "done"
    /\ served.cacheOut = "miss"
    /\ served.fileOut = "hit"
    /\ Len(served.consulted) >= 2

\* C10: after a successful download the data manager returns the
\* downloaded table whatever becomes of the cache write and the file save;
\* a cache write that succeeds stores the table under the request's key
\* with a TTL of 3600 s.
C10_DownloadReturnedDespiteWriteFailures ==
    (req.kind = "manager" /\ dl.status = "ok") =>
        /\ reqPc \in {"store", "save", "done"}
        /\ reqPc = "done" =>
              /\ served.status = "returned"
              /\ served.source = "download"
              /\ served.tbl = dl.tbl
        /\ (reqPc = "save" /\ served.writeOut = "ok") =>
              /\ redis_enabled
              /\ cache[CacheKey(req)] =
                    [present |-> TRUE, tbl |-> dl.tbl, ttl |-> 3600]
        /\ (reqPc \in {"save", "done"} /\ redis_enabled) => served.writeOut # "skipped"

\* C10 witness: the cache write and the file save both failed and the
\* downloaded table was returned.
C10_Witness ==
    /\ req.kind = "manager" /\ dl.status = "ok" /\ dl.tbl # {}
    /\ reqPc = "done"
    /\ served.writeOut = "failed"
    /\ served.saveOut = "failed"
    /\ served.status = "returned"

\* C11: with the networked cache unreachable at construction, caching
\* stays disabled: the client is never set afterwards, no read, write or
\* delete is ever sent to the cache by any operation, get_latest_price
\* returns none, and the cache holds what it held.
C11_DisabledCacheStaysUntouched ==
    /\ [](~redis_enabled =>
            /\ cacheOp.issued = {}
            /\ cacheOp.result = "none"
            /\ "redis" \notin Range(served.consulted)
            /\ served.cacheOut = "skipped"
            /\ served.writeOut = "skipped"
            /\ cache = [k \in Keys |-> NoEntry]
            /\ latest_price = NoLatest)
    /\ [][~redis_enabled => ~redis_enabled']_vars

\* C11 witness: with the cache disabled a download was served and
\* returned, and clear_cache was called after it.
C11_Witness ==
    /\ ~redis_enabled
    /\ served.status = "returned" /\ served.source = "download"
    /\ req.kind = "manager"
    /\ cacheOp.op = "clear_cache"

(* ------------------------------------------------------------------ *)
(* Claims on the pure computations                                      *)
(* ------------------------------------------------------------------ *)

\* C12: the output of validate_ohlcv_data has unique timestamps, every
\* row has low <= open <= high and low <= close <= high, and every two
\* consecutive output rows have an absolute close change of at most 10%.
C12_ValidatedTableIsClean ==
    val.done =>
        LET out == val.out
        IN  /\ \A i, j \in 1..Len(out) :
                  i # j => out[i].timestamp # out[j].timestamp
            /\ \A i \in 1..Len(out) :
                  /\ out[i].low <= out[i].open /\ out[i].open <= out[i].high
                  /\ out[i].low <= out[i].close /\ out[i].close <= out[i].high
            /\ \A i \in 2..Len(out) : ~Outlier(out, i)

\* C13: the simulated position size is never negative; a signal of -1 with
\* no open position submits no order, and a signal of -1 with an open
\* position sells exactly the open size.
C13_PositionNeverNegative ==
    /\ bt.position >= 0
    /\ bt.lastNext.signal = -1 =>
          IF bt.lastNext.position = 0
          THEN bt.lastNext.order.type = "none"
          ELSE bt.lastNext.order = [type |-> "sell", size |-> bt.lastNext.position]

\* C13 witness: a signal of -1 came with a position open, the sell it
\* submitted was filled and closed the position.
C13_Witness ==
    /\ bt.trades # <<>>
    /\ bt.position = 0
    /\ bt.lastNext.signal = -1 /\ bt.lastNext.position > 0
    /\ bt.lastNext.order.type = "sell"

C16_FailureDoesNotAbortBatch ==
    /\ wf.phase = "done" =>
          /\ Len(wf.evaluated) =
                Cardinality({k \in 0..wf.total_bars :
                    k * wf.step_size + wf.optimization_period + wf.test_period
                        <= wf.total_bars})
          /\ wf.results = SelectSeq(wf.evaluated, LAMBDA e : e.ok)
    /\ opt.phase = "done" =>
          /\ Len(opt.items) = opt.n
          /\ opt.kind = "grid_search" =>
                \A i \in 1..opt.n : opt.items[i].params = opt.combos[i]
          /\ {opt.out[k].item : k \in 1..Len(opt.out)} =
                {i \in 1..opt.n : opt.items[i].ok}
          /\ Len(opt.out) = Cardinality({i \in 1..opt.n : opt.items[i].ok})
          /\ \A k \in 1..Len(opt.out) :
                opt.out[k].params = opt.items[opt.out[k].item].params

\* C16 witness: a batch is over in which an item failed and a later item
\* succeeded.
C16_Witness ==
    \/ /\ wf.phase = "done" /\ Len(wf.evaluated) >= 2
       /\ ~wf.evaluated[1].ok /\ wf.evaluated[2].ok
    \/ /\ opt.phase = "done" /\ Len(opt.items) >= 2
       /\ ~opt.items[1].ok /\ opt.items[2].ok

\* C17: the list grid_search returns is a permutation of the summaries of
\* the successful combinations of the full product of the grid, ordered
\* non-increasing by sharpe_ratio, or total_return when sharpe_ratio is NaN.
C17_GridSearchRanked ==
    (opt.phase = "done" /\ opt.kind = "grid_search") =>
        LET out == opt.out
            pv == opt.param_values
            rank(x) == IF x.sharpe_nan THEN x.total_return ELSE x.sharpe_ratio
        IN  /\ {opt.items[i].params : i \in 1..Len(opt.items)} =
                  {c \in [1..Len(pv) -> 1..MaxItems] :
                      \A j \in 1..Len(pv) : c[j] \in Range(pv[j])}
            /\ \A i, j \in 1..Len(opt.items) :
                  opt.items[i].params = opt.items[j].params => i = j
            /\ Len(out) = Len(opt.results)
            /\ \A r \in Range(opt.results) : r \in Range(out)
            /\ \A i \in 1..Len(opt.items) :
                  opt.items[i].ok <=> \E k \in 1..Len(out) : out[k].item = i
            /\ \A k \in 1..(Len(out) - 1) : rank(out[k]) >= rank(out[k + 1])

\* C17 witness: a grid search returned three results, one ranked by its
\* total_return, after a combination failed.
C17_Witness ==
    /\ opt.phase = "done" /\ opt.kind = "grid_search"
    /\ Len(opt.out) >= 2
    /\ \E k \in 1..Len(opt.out) : opt.out[k].sharpe_nan
    /\ \E k \in 1..Len(opt.out) : ~opt.out[k].sharpe_nan
    /\ \E i \in 1..Len(opt.items) : ~opt.items[i].ok

\* C18: with a non-empty trade list, every simulated run of
\* run_simulation applies a permutation of the original trades: the pnl
\* applied in the run sums to the pnl of the original trades, and the
\* final equity of the run is initial_capital plus that sum, whatever the
\* draw.
C18_RunAppliesPermutation ==
    LET n == Len(mc.trades)
        Sum[i \in 0..n] == IF i = 0 THEN 0 ELSE Sum[i - 1] + Pnl(mc.trades[i])
        Applied[i \in 0..n] ==
            IF i = 0 THEN 0 ELSE Applied[i - 1] + Pnl(mc.trades[mc.order[i]])
        pos(t) == {i \in 1..n : mc.trades[i] = t}
    IN  /\ \A r \in 1..Len(mc.final_values) :
              mc.final_values[r] = mc.initial_capital + Sum[n]
        /\ (mc.final_values # <<>> /\ mc.phase \in {"loop", "done"}) =>
              /\ mc.k = n /\ Len(mc.order) = n
              /\ \A t \in Trades :
                    Cardinality({i \in 1..n : mc.order[i] \in pos(t)}) =
                        Cardinality(pos(t))
              /\ Applied[n] = Sum[n]
              /\ mc.equity = mc.initial_capital + Sum[n]

\* C18 witness: two runs are over, on three trades not all alike, the
\* last run in another order than the list's.
C18_Witness ==
    /\ mc.phase = "done" /\ Len(mc.final_values) = 2
    /\ Len(mc.trades) = 3
    /\ mc.trades[1] # mc.trades[2]
    /\ mc.order # <<1, 2, 3>>

\* C19: add_position appends the position and returns true exactly when
\* daily_pnl > -max_daily_loss and daily_pnl - risk_amount >=
\* -max_daily_loss, risk_amount being 0 when the position has none;
\* otherwise it returns false and leaves the list of positions as it was;
\* daily_pnl is unchanged either way.
C19_AdmissionRule ==
    [][(pm'.calls # pm.calls /\ pm'.op = "add_position") =>
          LET position == pm'.arg
              risk == IF "risk_amount" \in DOMAIN position
                      THEN position.risk_amount ELSE 0
              admitted == /\ pm.daily_pnl > 0 - pm.max_daily_loss
                          /\ pm.daily_pnl - risk >= 0 - pm.max_daily_loss
          IN  /\ admitted =>
                    /\ pm'.ret = TRUE
                    /\ pm'.positions = Append(pm.positions, position)
              /\ ~admitted =>
                    /\ pm'.ret = FALSE
                    /\ pm'.positions = pm.positions
              /\ pm'.daily_pnl = pm.daily_pnl
              /\ pm'.max_daily_loss = pm.max_daily_loss]_vars

\* C19 witness: a position was refused for its risk alone, the daily loss
\* being within the limit, after another was admitted.
C19_Witness ==
    /\ pm.op = "add_position" /\ pm.ret = FALSE
    /\ pm.daily_pnl > 0 - pm.max_daily_loss
    /\ pm.positions # <<>>
    /\ pm.daily_pnl # 0

\* C20: at most one broadcaster task is running at any time, and
\* start_streaming creates no task while the broadcaster task exists and
\* is not done, whatever the connects, disconnects and failed sends.
C20_AtMostOneBroadcaster ==
    /\ [](Cardinality({t \in TaskIds : tasks[t].st = "pending"}) <= 1)
    /\ [][(stream_task # 0 /\ tasks[stream_task].st # "done") =>
             (nTasks' = nTasks /\ stream_task' = stream_task)]_vars

\* C20 witness: a socket registered alone, so that start_streaming ran,
\* while the only task ever created was still pending, its cancellation
\* requested by the previous disconnect.
C20_Witness ==
    /\ nTasks = 1 /\ stream_task = 1
    /\ tasks[1].st = "pending" /\ tasks[1].cancel
    /\ Len(active_connections) = 1

\* C21: in filter_signals the hold counter is reset to 0 whenever the
\* held signal changes and whenever a suppressed signal is overwritten
\* to 0.
C21_CounterResets ==
    [][fs'.i = fs.i + 1 =>
          LET i == fs'.i
              changed == fs'.last_signal # fs.last_signal
              suppressed == fs.signals[i] # 0 /\ fs'.filtered[i] = 0
          IN  (changed \/ suppressed) => fs'.hold_count = 0]_vars

\* C22: every value of the output of filter_signals is 0 or the input
\* value at that bar, and between two bars at which the held signal
\* changes there are at least min_hold_period bars.
C22_MinimumHold ==
    LET n == fs.i
        out == fs.filtered
        Held[i \in 0..n] ==
            IF i = 0 THEN 0
            ELSE IF out[i] \notin {0, Held[i - 1]} THEN out[i] ELSE Held[i - 1]
        changes == {i \in 1..n : out[i] \notin {0, Held[i - 1]}}
    IN  /\ Len(out) = Len(fs.signals)
        /\ \A i \in 1..Len(out) : out[i] \in {0, fs.signals[i]}
        /\ \A i, j \in changes : i < j => j - i - 1 >= fs.min_hold_period
        /\ Held[n] = fs.last_signal

\* C22 witness: the series is filtered, the held signal changed twice, and
\* a signal in between was suppressed.
C22_Witness ==
    /\ fs.phase = "done" /\ fs.min_hold_period = 1
    /\ \E i, j, k \in 1..Len(fs.filtered) :
          /\ i < k /\ k < j
          /\ fs.filtered[i] = 1 /\ fs.filtered[j] = -1
          /\ fs.signals[k] = -1 /\ fs.filtered[k] = 0

\* C23: during a backtest run on_bar is called once per bar from the
\* second bar on, in ascending order of the bars, and at a bar the table
\* it receives consists of exactly the bars up to that one, in order, the
\* index argument designating that bar.
C23_TableIsBarsUpToCurrent ==
    /\ bt.lastNext.bar # 0 =>
          /\ bt.lastNext.df = [k \in 1..bt.lastNext.bar |-> k]
          /\ bt.lastNext.df[Len(bt.lastNext.df)] = bt.lastNext.bar
    /\ \A k \in 1..Len(bt.calls) : bt.calls[k] = k + 1
    /\ \A r \in 1..Len(bt.results) : ~bt.results[r].raised

C25_BestForMetric ==
    opt.phase = "optimized" =>
        LET value(r) == IF opt.best.metric = "sharpe_ratio"
                        THEN [nan |-> r.sharpe_nan, v |-> r.sharpe_ratio]
                        ELSE [nan |-> FALSE, v |-> r.total_return]
            ok == Range(opt.results)
        IN  IF ok = {} THEN opt.best.status = "raised"
            ELSE /\ opt.best.status = "returned"
                 /\ \E r \in ok :
                       /\ r.params = opt.best.best_params
                       /\ value(r) = opt.best.best_metric_value
                 /\ \A r \in ok :
                       ~value(r).nan =>
                          /\ ~opt.best.best_metric_value.nan
                          /\ value(r).v <= opt.best.best_metric_value.v

\* C26: in stream_gbpusd_live consecutive_errors stays within 0..5; it is
\* reset to 0 after every tick yielded by a poll; a failure below 5 is
\* followed by one update_interval sleep and a retry on the same provider;
\* and whenever it reaches 5 it is reset to 0, after a provider switch or
\* after the 10 s wait, before the next price call.
C26_ErrorCounterBounded ==
    /\ [](/\ max_errors = 5
          /\ consecutive_errors \in 0..5
          /\ feedPc \in {"loop", "oanda_loop"} => consecutive_errors < 5
          /\ feedPc = "sleep_interval" => consecutive_errors \in 1..4
          /\ feedPc = "sleep_10" => consecutive_errors = 5)
    /\ [][/\ (feedPc = "sleep_ok" /\ feedPc' = "loop") => consecutive_errors' = 0
          /\ (feedPc = "loop" /\ consecutive_errors' # consecutive_errors) =>
                /\ consecutive_errors' = consecutive_errors + 1
                   \/ (consecutive_errors = 4 /\ consecutive_errors' = 0
                       /\ provider_name' # provider_name)
                /\ consecutive_errors' \in 1..4 =>
                      (feedPc' = "sleep_interval" /\ provider_name' = provider_name)
                /\ consecutive_errors' = 5 =>
                      (feedPc' = "sleep_10" /\ provider_name' = provider_name)
          /\ feedPc = "sleep_interval" =>
                \/ feedPc' = "cancelled"
                \/ /\ feedPc' = "loop"
                   /\ consecutive_errors' = consecutive_errors
                   /\ provider_name' = provider_name
          /\ feedPc = "sleep_10" =>
                \/ feedPc' = "cancelled"
                \/ (feedPc' = "loop" /\ consecutive_errors' = 0)]_feedVars

\* C26 witness: after a tick the polled provider failed five times in a
\* row and the generator is in its 10 s wait.
C26_Witness ==
    /\ feedPc = "sleep_10"
    /\ consecutive_errors = 5
    /\ lastTick # "none"

\* C29: while OANDA is the active provider and its native stream is used,
\* a failing price call is retried inside the OANDA stream after a 5 s
\* wait and never increments consecutive_errors, so neither the failover
\* nor the 10 s back-off is reached, however often OANDA fails.
C29_OandaFailuresStayInside ==
    /\ [](provider_name = "oanda" =>
             /\ NativeStream
             /\ consecutive_errors = 0
             /\ ~failover.ran
             /\ feedPc \notin {"sleep_interval", "sleep_10", "raised"})
    /\ [][provider_name = "oanda" =>
             /\ provider_name' = "oanda"
             /\ consecutive_errors' = consecutive_errors
             /\ failover' = failover
             /\ (feedPc \in {"loop", "oanda_loop"} /\ "oanda" \notin up) =>
                   feedPc' = "oanda_sleep_5"
             /\ feedPc = "oanda_sleep_5" =>
                   feedPc' \in {"oanda_loop", "cancelled"}]_feedVars

\* C29 witness: OANDA yielded a tick, then its price call failed and the
\* stream is in its 5 s wait.
C29_Witness ==
    /\ provider_name = "oanda" /\ lastTick = "oanda"
    /\ feedPc = "oanda_sleep_5"
    /\ "oanda" \notin up

\* C27 as stated: run terminates for every table and all periods >= 0
\* when step_size >= 1, after at most ceil(total_bars / step_size) passes
\* of its loop, and a period that fails still moves the start by
\* step_size.
C27_TerminatesWithinBound ==
    /\ <>(wf.phase = "done")
    /\ [](wf.iterations <= (wf.total_bars + wf.step_size - 1) \div wf.step_size)
    /\ [][Len(wf'.evaluated) > Len(wf.evaluated) =>
             wf'.current_start = wf.current_start + wf.step_size]_vars

\* C27 amended: the same with the bound max(1, ceil(total_bars /
\* step_size)): one pass is made, and left at the empty test window, on a
\* table and periods of no bar.
C27_TerminatesWithinBoundOrOnePass ==
    /\ <>(wf.phase = "done")
    /\ [](LET ceil == (wf.total_bars + wf.step_size - 1) \div wf.step_size
          IN  wf.iterations <= IF ceil < 1 THEN 1 ELSE ceil)
    /\ [][Len(wf'.evaluated) > Len(wf.evaluated) =>
             wf'.current_start = wf.current_start + wf.step_size]_vars

\* C27 witness: the run is over after as many passes as the bound allows,
\* one of them a period that failed.
C27_Witness ==
    /\ wf.phase = "done"
    /\ wf.iterations >= 2
    /\ wf.iterations = (wf.total_bars + wf.step_size - 1) \div wf.step_size
    /\ \E k \in 1..Len(wf.evaluated) : ~wf.evaluated[k].ok

\* C28: after any sequence of add_position calls made while daily_pnl
\* stays unchanged, the risk_amount of the positions admitted in that
\* sequence sums to no more than the remaining daily loss budget,
\* max_daily_loss + daily_pnl.
C28_AdmittedRiskWithinBudget ==
    LET n == Len(pm.positions)
        Risk[k \in pm.mark..n] ==
            IF k = pm.mark THEN 0
            ELSE Risk[k - 1] + Get(pm.positions[k], "risk_amount")
    IN  n > pm.mark => Risk[n] <= pm.max_daily_loss + pm.daily_pnl

\* C30: a table get_historical_data serves from the local files is non-empty
\* and each of its candles respects every bound the caller gave: it is not
\* before start_date when start_date is given and not after end_date when
\* end_date is given (0 stands for a bound left out).
C30_FileTableWithinBounds ==
    (req.kind = "manager" /\ served.status = "returned" /\ served.source = "file") =>
        /\ served.tbl # {}
        /\ \A t \in served.tbl :
              /\ req.start # 0 => t >= req.start
              /\ req.end # 0 => t <= req.end

====
